---------------------------- MODULE Spec2Model ----------------------------
(***************************************************************************)
(* Payment gateway with asynchronous processing.                           *)
(*                                                                         *)
(* The store (orders, payments, refunds, webhook_logs, idempotency_keys),  *)
(* the three Bull queues and the handlers that run against them.  Every    *)
(* handler is an async function: each awaited statement (one SQL statement *)
(* or one queue.add) is one atomic step, and the steps of different        *)
(* requests and jobs interleave freely.                                    *)
(***************************************************************************)
EXTENDS Integers, Sequences, FiniteSets, Bags, TLC

(***************************************************************************)
(* Bounds of the model.                                                    *)
(***************************************************************************)
MaxOrders == 1
MaxAmount == 2
MaxPayments == 2
MaxRefunds == 2
MaxReqs == 2
MaxStalled == 1
MaxDays == 1
MaxLogs == 1
MaxRetryReqs == 1
MaxRefundPayments == 1
MaxWorkers == 1
MaxSecrets == 2
MaxAttemptNumber == 6

(***************************************************************************)
(* Program constants.                                                      *)
(***************************************************************************)
IdempotencyTtl == 86400000
QueueAttempts == 3
QueueBackoffDelay == 2000
MaxWebhookAttempts == 5

NULL == "null"

Merchants == {"mA", "mB"}
Keys == {"k1"}
Amounts == 1 .. MaxAmount

(* Request bodies of POST /payments: the method and which of the          *)
(* method-specific fields the caller supplied.                            *)
PaymentBodies ==
    { [method |-> "card", card |-> TRUE,  vpa |-> FALSE],
      [method |-> "upi",  card |-> FALSE, vpa |-> TRUE],
      [method |-> "card", card |-> FALSE, vpa |-> FALSE],
      [method |-> "upi",  card |-> FALSE, vpa |-> FALSE],
      [method |-> "netbanking", card |-> FALSE, vpa |-> FALSE] }

VARIABLES
    now,               \* the wall clock, in ms
    testMode,          \* WEBHOOK_RETRY_INTERVALS_TEST === 'true'
    webhook_url,       \* merchants.webhook_url: merchant -> BOOLEAN (set or NULL)
    webhook_secret,    \* merchants.webhook_secret: merchant -> which of its secrets
    orders,            \* table orders, id = index
    payments,          \* table payments, id = index
    refunds,           \* table refunds, id = index
    webhook_logs,      \* table webhook_logs, id = index
    idempotency_keys,  \* table idempotency_keys, a set of rows
    paymentQueue,      \* live jobs of queue payment-processing (a bag)
    refundQueue,       \* live jobs of queue refund-processing (a bag)
    webhookQueue,      \* live jobs of queue webhook-delivery (a bag)
    reqs,              \* API requests in flight (a bag), each at an await
    lastResp,          \* history: the response most recently sent
    returned,          \* history: the keyed 201 responses sent so far
    added,             \* history: queue.add calls, per queue and entity id
    hist,              \* history, per webhook log: POSTs made and attempts
                       \* recorded since it was created or last reset by hand,
                       \* and the resets
    keyed              \* history: payment rows inserted, per (key, merchant)

vars == << now, testMode, webhook_url, webhook_secret, orders, payments, refunds, webhook_logs,
           idempotency_keys, paymentQueue, refundQueue, webhookQueue, reqs,
           lastResp, returned, added, hist, keyed >>

(***************************************************************************)
(* Helpers.                                                                *)
(***************************************************************************)
Min(S) == CHOOSE x \in S : \A y \in S : x <= y

BagAdd(b, e) == b (+) SetToBag({e})
BagDel(b, e) == b (-) SetToBag({e})
BagSwap(b, old, new) == BagAdd(BagDel(b, old), new)

RECURSIVE SumOver(_, _)
SumOver(f, S) ==
    IF S = {} THEN 0
    ELSE LET x == CHOOSE y \in S : TRUE IN f[x] + SumOver(f, S \ {x})

(* A JavaScript object literal: its properties, and which of them hold     *)
(* undefined.  JSON.stringify drops the undefined ones; what is left is   *)
(* the JSON text sent on the wire or stored in a JSONB column.            *)
Obj(val, undef) == [val |-> val, undef |-> undef]

JSONStringify(obj) == [k \in DOMAIN obj.val \ obj.undef |-> obj.val[k]]

NoResp == [op |-> "none", code |-> 0]

NewHist == [posts |-> 0, recorded |-> 0, resets |-> 0, fresh |-> 0]


(***************************************************************************)
(* The job queues (Bull).  A job is waiting, delayed until `due`, or       *)
(* active; completed and failed jobs leave the bag.  `made` counts the     *)
(* attempts the queue has made (defaultJobOptions.attempts), `stalled` the *)
(* times the job was taken back from a worker that stopped renewing its    *)
(* lock (at-least-once delivery).  `pc` and `loc` are the handler's        *)
(* position and local variables while the job is active.                  *)
(***************************************************************************)
NoBody == [json |-> << >>]

NoLoc == [attempts |-> 0, code |-> 0, ok |-> FALSE, log |-> 0, epoch |-> 0,
          url |-> FALSE, secret |-> 0, body |-> NoBody, signature |-> << >>]

NewJob(data, delay) ==
    [data |-> data,
     state |-> IF delay > 0 THEN "delayed" ELSE "waiting",
     due |-> IF delay > 0 THEN now + delay ELSE 0,
     made |-> 0, stalled |-> 0, pc |-> "idle", loc |-> NoLoc]

(* A queue.add that creates the job twice. *)
QueueAddTwice(q, data, delay) ==
    BagAdd(BagAdd(q, NewJob(data, delay)), NewJob(data, delay))

(* queue.add(name, data, {delay}) *)
QueueAdd(q, data, delay) == BagAdd(q, NewJob(data, delay))

Jobs(q) == BagToSet(q)

(* A job the queue may hand to a worker now. *)
Due(j) == j.state = "waiting" \/ (j.state = "delayed" /\ j.due <= now)

(* queue.process(name, handler): each worker process runs one job of a     *)
(* queue at a time; MaxWorkers worker processes are running.               *)
Active(q) ==
    SumOver([j \in Jobs(q) |-> CopiesIn(j, q)],
            {j \in Jobs(q) : j.state = "active"})

Free(q) == Active(q) < MaxWorkers

RECURSIVE Pow2(_)
Pow2(n) == IF n <= 0 THEN 1 ELSE 2 * Pow2(n - 1)

(* A queue whose attempts are retries: one more run than attempts. *)
QueueThrowOneMore(q, j) ==
    IF j.made < QueueAttempts
    THEN BagSwap(q, j, [j EXCEPT !.state = "delayed",
                                 !.due = now + QueueBackoffDelay
                                                 * (Pow2(j.made + 1) - 1),
                                 !.made = j.made + 1,
                                 !.pc = "idle", !.loc = NoLoc])
    ELSE BagDel(q, j)

(* The handler threw: the queue retries the job after an exponential      *)
(* backoff until defaultJobOptions.attempts are used up, then fails it.   *)
QueueThrow(q, j) ==
    IF j.made + 1 < QueueAttempts
    THEN BagSwap(q, j, [j EXCEPT !.state = "delayed",
                                 !.due = now + QueueBackoffDelay
                                                 * (Pow2(j.made + 1) - 1),
                                 !.made = j.made + 1,
                                 !.pc = "idle", !.loc = NoLoc])
    ELSE BagDel(q, j)

(* The handler returned: the job is completed. *)
QueueComplete(q, j) == BagDel(q, j)

(* The worker holding an active job stopped (crash, lost lock): the queue *)
(* moves the job back to waiting and another worker runs it again.        *)
QueueStall(q, j) ==
    BagSwap(q, j, [j EXCEPT !.state = "waiting", !.due = 0,
                            !.stalled = j.stalled + 1,
                            !.pc = "idle", !.loc = NoLoc])

(***************************************************************************)
(* API requests in flight.                                                 *)
(***************************************************************************)
NewReq(op, m, key, target, body) ==
    [op |-> op, pc |-> "start", merchant |-> m, key |-> key,
     target |-> target, body |-> body, row |-> 0, read |-> 0,
     prior |-> {r \in returned : r.key = key /\ r.merchant = m},
     started |-> now, faults |-> {}]

Reqs == BagToSet(reqs)

(* res.status(code).json(body), body the JSON text: the request is over. *)
RespondAfter(r, faults, code, body) ==
    /\ reqs' = BagDel(reqs, r)
    /\ lastResp' = [op |-> r.op, code |-> code, body |-> body,
                    merchant |-> r.merchant, key |-> r.key, target |-> r.target,
                    row |-> r.row, prior |-> r.prior, started |-> r.started,
                    at |-> now, faults |-> faults]
    /\ returned' =
         IF r.op = "createPayment" /\ code = 201 /\ r.key # NULL
         THEN returned \cup {[key |-> r.key, merchant |-> r.merchant,
                              body |-> body, at |-> now]}
         ELSE returned

Respond(r, code, body) == RespondAfter(r, r.faults, code, body)

Goto(r, pc) == reqs' = BagSwap(reqs, r, [r EXCEPT !.pc = pc])

ErrorBody(code, description) ==
    JSONStringify(Obj([error |-> [code |-> code, description |-> description]],
                      {}))

storeVars == << orders, payments, refunds, webhook_logs, idempotency_keys >>
queueVars == << paymentQueue, refundQueue, webhookQueue >>
respVars == << lastResp, returned >>
envVars == << now, testMode, webhook_url, webhook_secret >>

(***************************************************************************)
(* POST /api/v1/orders                                                     *)
(***************************************************************************)
CreateOrder(m, amount) ==
    /\ Len(orders) < MaxOrders
    /\ amount > 0
    /\ orders' = Append(orders, [merchant_id |-> m, amount |-> amount,
                                 status |-> "created"])
    /\ UNCHANGED << payments, refunds, webhook_logs, idempotency_keys,
                    queueVars, reqs, respVars, added, hist, keyed, envVars >>

(***************************************************************************)
(* IdempotencyService                                                      *)
(***************************************************************************)
IdempotencyRowsOfAnyMerchant(key, m) ==
    {k \in idempotency_keys : k.key = key}

IdempotencyRows(key, m) ==
    {k \in idempotency_keys : k.key = key /\ k.merchant_id = m}

(* The row check found, the expiry test on it: "hit", "expired", "miss".   *)
checkIdempotencyKey(key, m) ==
    IF IdempotencyRows(key, m) = {} THEN "miss"
    ELSE LET record == CHOOSE k \in IdempotencyRows(key, m) : TRUE
         IN IF now >= record.expires_at THEN "expired" ELSE "hit"

CachedResponse(key, m) ==
    (CHOOSE k \in IdempotencyRows(key, m) : TRUE).response

(* INSERT ... ON CONFLICT (key, merchant_id) DO UPDATE *)
storeIdempotencyKey(key, m, response) ==
    (idempotency_keys \ IdempotencyRows(key, m))
      \cup {[key |-> key, merchant_id |-> m,
             response |-> JSONStringify(response),
             expires_at |-> now + IdempotencyTtl]}

(***************************************************************************)
(* POST /api/v1/payments                                                   *)
(***************************************************************************)
(* The row is the one INSERT ... RETURNING gave: every column of it but    *)
(* status is never written again, and status is 'pending' in that row.    *)
PaymentResponse(id) ==
    LET p == payments[id]
    IN Obj([id |-> id, order_id |-> p.order_id, amount |-> p.amount,
            method |-> p.method, vpa |-> p.vpa, card_number |-> p.card_number,
            status |-> "pending", created_at |-> p.created_at],
           {k \in {"vpa", "card_number"} : p[k] = NULL})

(* Requests that may still insert a payment row. *)
PendingInserts ==
    SumOver([r \in Reqs |-> CopiesIn(r, reqs)],
            {r \in Reqs : r.op = "createPayment" /\ r.row = 0})

CreatePaymentStart(m, key, order_id, body) ==
    /\ BagCardinality(reqs) < MaxReqs
    /\ \/ Len(payments) + PendingInserts < MaxPayments
       \/ key # NULL /\ IdempotencyRows(key, m) # {}
    /\ reqs' = BagAdd(reqs, [NewReq("createPayment", m, key, order_id, body)
                               EXCEPT !.pc = IF key # NULL THEN "check"
                                            ELSE "validate"])
    /\ UNCHANGED << storeVars, queueVars, respVars, added, hist, keyed, envVars >>

(* payments.js 17-24 with IdempotencyService.checkIdempotencyKey 11-35 *)
CreatePaymentCheck(r) ==
    /\ r.op = "createPayment" /\ r.pc = "check"
    /\ CASE checkIdempotencyKey(r.key, r.merchant) = "hit" ->
              Respond(r, 201, CachedResponse(r.key, r.merchant))
         [] checkIdempotencyKey(r.key, r.merchant) = "expired" ->
              Goto(r, "expire") /\ UNCHANGED respVars
         [] OTHER ->
              Goto(r, "validate") /\ UNCHANGED respVars
    /\ UNCHANGED << storeVars, queueVars, added, hist, keyed, envVars >>

(* IdempotencyService.checkIdempotencyKey 26-33: delete the expired key *)
CreatePaymentExpire(r) ==
    /\ r.op = "createPayment" /\ r.pc = "expire"
    /\ idempotency_keys' = idempotency_keys \ IdempotencyRows(r.key, r.merchant)
    /\ Goto(r, "validate")
    /\ UNCHANGED << orders, payments, refunds, webhook_logs, queueVars,
                    respVars, added, hist, keyed, envVars >>

(* checkIdempotencyKey 10-15, 36-39: the SELECT raises a storage error,    *)
(* the catch returns null and the route goes on to validation.             *)
CreatePaymentCheckFail(r) ==
    /\ r.op = "createPayment" /\ r.pc = "check"
    /\ reqs' = BagSwap(reqs, r, [r EXCEPT !.pc = "validate",
                                          !.faults = @ \cup {"check"}])
    /\ UNCHANGED << storeVars, queueVars, respVars, added, hist, keyed, envVars >>

(* checkIdempotencyKey 28-31, 36-39: the DELETE raises a storage error,    *)
(* the record stays, the catch returns null.                               *)
CreatePaymentExpireFail(r) ==
    /\ r.op = "createPayment" /\ r.pc = "expire"
    /\ reqs' = BagSwap(reqs, r, [r EXCEPT !.pc = "validate",
                                          !.faults = @ \cup {"expire"}])
    /\ UNCHANGED << storeVars, queueVars, respVars, added, hist, keyed, envVars >>

CreatePaymentValidateNoVpa(r) ==
    /\ r.op = "createPayment" /\ r.pc = "validate"
    /\ IF ~(r.target \in DOMAIN orders /\ orders[r.target].merchant_id = r.merchant)
       THEN Respond(r, 404, ErrorBody("NOT_FOUND_ERROR", "Order not found"))
       ELSE IF r.body.method \notin {"card", "upi"}
       THEN Respond(r, 400, ErrorBody("BAD_REQUEST_ERROR", "Invalid payment method"))
       ELSE IF r.body.method = "card" /\ ~r.body.card
       THEN Respond(r, 400, ErrorBody("BAD_REQUEST_ERROR",
                            "Card details are required for card payments"))
       ELSE Goto(r, "insert") /\ UNCHANGED respVars
    /\ UNCHANGED << storeVars, queueVars, added, hist, keyed, envVars >>

(* payments.js 26-70 *)
CreatePaymentValidate(r) ==
    /\ r.op = "createPayment" /\ r.pc = "validate"
    /\ IF ~(r.target \in DOMAIN orders /\ orders[r.target].merchant_id = r.merchant)
       THEN Respond(r, 404, ErrorBody("NOT_FOUND_ERROR", "Order not found"))
       ELSE IF r.body.method \notin {"card", "upi"}
       THEN Respond(r, 400, ErrorBody("BAD_REQUEST_ERROR", "Invalid payment method"))
       ELSE IF r.body.method = "card" /\ ~r.body.card
       THEN Respond(r, 400, ErrorBody("BAD_REQUEST_ERROR",
                            "Card details are required for card payments"))
       ELSE IF r.body.method = "upi" /\ ~r.body.vpa
       THEN Respond(r, 400, ErrorBody("BAD_REQUEST_ERROR",
                            "VPA is required for UPI payments"))
       ELSE Goto(r, "insert") /\ UNCHANGED respVars
    /\ UNCHANGED << storeVars, queueVars, added, hist, keyed, envVars >>

(* payments.js 72-95: INSERT INTO payments ... 'pending' *)
CreatePaymentInsert(r) ==
    /\ r.op = "createPayment" /\ r.pc = "insert"
    /\ Len(payments) < MaxPayments
    /\ payments' = Append(payments,
         [order_id |-> r.target, merchant_id |-> r.merchant,
          amount |-> orders[r.target].amount, method |-> r.body.method,
          card_number |-> IF r.body.card THEN "card" ELSE NULL,
          vpa |-> IF r.body.vpa THEN "vpa" ELSE NULL,
          status |-> "pending", error_code |-> NULL, captured |-> FALSE,
          created_at |-> now])
    /\ reqs' = BagSwap(reqs, r, [r EXCEPT !.pc = "enqueue",
                                          !.row = Len(payments) + 1])
    /\ keyed' = IF r.key # NULL THEN BagAdd(keyed, << r.key, r.merchant >>)
                ELSE keyed
    /\ UNCHANGED << orders, refunds, webhook_logs, idempotency_keys, queueVars,
                    respVars, added, hist, envVars >>

(* A creation that goes on to the response without adding the job. *)
CreatePaymentEnqueueLost(r) ==
    /\ r.op = "createPayment" /\ r.pc = "enqueue"
    /\ Goto(r, "store")
    /\ UNCHANGED << storeVars, queueVars, respVars, added, hist, keyed, envVars >>

(* An enqueue step that names a payment row that is not inserted yet. *)
CreatePaymentEnqueueAhead(r) ==
    /\ r.op = "createPayment" /\ r.pc = "enqueue"
    /\ paymentQueue' = QueueAdd(paymentQueue, [paymentId |-> r.row + 1], 0)
    /\ added' = BagAdd(added, << "process-payment", r.row + 1 >>)
    /\ Goto(r, "store")
    /\ UNCHANGED << storeVars, refundQueue, webhookQueue, respVars, hist, keyed,
                    envVars >>

(* payments.js 97-100: paymentQueue.add('process-payment', {paymentId}) *)
CreatePaymentEnqueue(r) ==
    /\ r.op = "createPayment" /\ r.pc = "enqueue"
    /\ paymentQueue' = QueueAdd(paymentQueue, [paymentId |-> r.row], 0)
    /\ added' = BagAdd(added, << "process-payment", r.row >>)
    /\ Goto(r, "store")
    /\ UNCHANGED << storeVars, refundQueue, webhookQueue, respVars, hist, keyed,
                    envVars >>

(* A failed enqueue whose error response is cached under the key. *)
CreatePaymentEnqueueFailCaches(r) ==
    /\ r.op = "createPayment" /\ r.pc = "enqueue"
    /\ idempotency_keys' =
         IF r.key # NULL
         THEN (idempotency_keys \ IdempotencyRows(r.key, r.merchant))
                \cup {[key |-> r.key, merchant_id |-> r.merchant,
                       response |-> ErrorBody("SERVER_ERROR",
                                              "Internal server error"),
                       expires_at |-> now + IdempotencyTtl]}
         ELSE idempotency_keys
    /\ RespondAfter(r, r.faults \cup {"enqueue"}, 500,
                    ErrorBody("SERVER_ERROR", "Internal server error"))
    /\ UNCHANGED << orders, payments, refunds, webhook_logs, queueVars, added,
                    hist, keyed, envVars >>

(* payments.js 97-100, 123-131: paymentQueue.add rejects (the queue's      *)
(* store cannot be reached); the catch of the route answers 500.  The row  *)
(* inserted before stays.                                                  *)
CreatePaymentEnqueueFail(r) ==
    /\ r.op = "createPayment" /\ r.pc = "enqueue"
    /\ RespondAfter(r, r.faults \cup {"enqueue"}, 500,
                    ErrorBody("SERVER_ERROR", "Internal server error"))
    /\ UNCHANGED << storeVars, queueVars, added, hist, keyed, envVars >>

CreatePaymentStoreFailRejects(r) ==
    /\ r.op = "createPayment" /\ r.pc = "store" /\ r.key # NULL
    /\ RespondAfter(r, r.faults \cup {"store"}, 500,
                    ErrorBody("SERVER_ERROR", "Internal server error"))
    /\ UNCHANGED << storeVars, queueVars, added, hist, keyed, envVars >>

(* storeIdempotencyKey 52-63: the upsert raises a storage error, which the *)
(* catch logs and drops; the route answers 201.                            *)
CreatePaymentStoreFail(r) ==
    /\ r.op = "createPayment" /\ r.pc = "store" /\ r.key # NULL
    /\ RespondAfter(r, r.faults \cup {"store"}, 201,
                    JSONStringify(PaymentResponse(r.row)))
    /\ UNCHANGED << storeVars, queueVars, added, hist, keyed, envVars >>

(* payments.js 104-122: build the response, store the key, answer 201 *)
CreatePaymentStore(r) ==
    /\ r.op = "createPayment" /\ r.pc = "store"
    /\ idempotency_keys' =
         IF r.key # NULL
         THEN storeIdempotencyKey(r.key, r.merchant, PaymentResponse(r.row))
         ELSE idempotency_keys
    /\ Respond(r, 201, JSONStringify(PaymentResponse(r.row)))
    /\ UNCHANGED << orders, payments, refunds, webhook_logs, queueVars, added,
                    hist, keyed, envVars >>


(***************************************************************************)
(* WebhookService.createWebhookLog, called by a job handler at its end.    *)
(* Its three awaited statements are the pcs "wh_select", "wh_insert" and   *)
(* "wh_enqueue" of the calling job; it never throws (catch at 71-73).      *)
(***************************************************************************)
(* A JavaScript object is its properties in insertion order; its JSON     *)
(* text lists them in that order.  A JSONB column returns an object with *)
(* the keys in PostgreSQL's order: shorter keys first.                    *)
WebhookPayload(event, data) ==
    << << "event", event >>, << "timestamp", now \div 1000 >>,
       << "data", data >> >>

Field(obj, key) == (CHOOSE i \in DOMAIN obj : obj[i][1] = key)

JsonbKeyOrder == << "data", "event", "timestamp" >>

Jsonb(obj) ==
    LET present == SelectSeq(JsonbKeyOrder,
                             LAMBDA k : \E i \in DOMAIN obj : obj[i][1] = k)
    IN [n \in DOMAIN present |-> obj[Field(obj, present[n])]]

(* JSON.stringify of a payload object: the text of its properties in     *)
(* their order.                                                           *)
PayloadString(obj) == [json |-> obj]

(* crypto.createHmac('sha256', secret).update(bytes).digest('hex'), as an *)
(* injective function of the key and the bytes                            *)
Hmac(secret, bytes) == << "hmac-sha256", secret, bytes >>

NewWebhookLog(m, event, payload) ==
    [merchant_id |-> m, event |-> event, payload |-> payload,
     status |-> "pending", attempts |-> 0, last_attempt_at |-> NULL,
     next_retry_at |-> NULL, response_code |-> NULL]

(* A handler that names the events the wrong way round. *)
EventOfSwapped(qn, j) ==
    IF qn = "payment"
    THEN [merchant |-> payments[j.data.paymentId].merchant_id,
          event |-> IF j.loc.ok THEN "payment.failed" ELSE "payment.success",
          data |-> [payment |-> j.data.paymentId,
                    status |-> IF j.loc.ok THEN "success" ELSE "failed"]]
    ELSE [merchant |-> refunds[j.data.refundId].merchant_id,
          event |-> "refund.processed",
          data |-> [refund |-> j.data.refundId, status |-> "processed"]]

(* What the calling handler passes to createWebhookLog. *)
EventOf(qn, j) ==
    IF qn = "payment"
    THEN [merchant |-> payments[j.data.paymentId].merchant_id,
          event |-> IF j.loc.ok THEN "payment.success" ELSE "payment.failed",
          data |-> [payment |-> j.data.paymentId,
                    status |-> IF j.loc.ok THEN "success" ELSE "failed"]]
    ELSE [merchant |-> refunds[j.data.refundId].merchant_id,
          event |-> "refund.processed",
          data |-> [refund |-> j.data.refundId, status |-> "processed"]]

WorkQueues == {"payment", "refund"}

QueueOf(qn) ==
    CASE qn = "payment" -> paymentQueue
      [] qn = "refund" -> refundQueue
      [] qn = "webhook" -> webhookQueue

SetQueue(qn, q) ==
    CASE qn = "payment" -> paymentQueue' = q /\ UNCHANGED refundQueue
      [] qn = "refund" -> refundQueue' = q /\ UNCHANGED paymentQueue

(* WebhookService.js 25-42: SELECT webhook_url FROM merchants *)
CreateWebhookLogSelect(qn, j) ==
    /\ j \in Jobs(QueueOf(qn)) /\ j.state = "active" /\ j.pc = "wh_select"
    /\ SetQueue(qn, BagSwap(QueueOf(qn), j,
            [j EXCEPT !.loc.url = webhook_url[EventOf(qn, j).merchant],
                      !.pc = IF webhook_url[EventOf(qn, j).merchant]
                             THEN "wh_insert" ELSE "return"]))
    /\ UNCHANGED << storeVars, webhookQueue, reqs, respVars, added, hist, keyed,
                    envVars >>

(* WebhookService.js 44-59: INSERT INTO webhook_logs ... 'pending', 0 *)
CreateWebhookLogInsert(qn, j) ==
    /\ j \in Jobs(QueueOf(qn)) /\ j.state = "active" /\ j.pc = "wh_insert"
    /\ LET e == EventOf(qn, j)
       IN webhook_logs' = Append(webhook_logs,
              NewWebhookLog(e.merchant, e.event, WebhookPayload(e.event, e.data)))
    /\ hist' = Append(hist, NewHist)
    /\ SetQueue(qn, BagSwap(QueueOf(qn), j,
            [j EXCEPT !.pc = "wh_enqueue", !.loc.log = Len(webhook_logs) + 1]))
    /\ UNCHANGED << orders, payments, refunds, idempotency_keys, webhookQueue,
                    reqs, respVars, added, keyed, envVars >>

(* WebhookService.js 61-68: webhookQueue.add('deliver-webhook', {...}) *)
CreateWebhookLogEnqueue(qn, j) ==
    /\ j \in Jobs(QueueOf(qn)) /\ j.state = "active" /\ j.pc = "wh_enqueue"
    /\ LET log == webhook_logs[j.loc.log]
       IN webhookQueue' = QueueAdd(webhookQueue,
              [webhookLogId |-> j.loc.log, merchantId |-> log.merchant_id,
               event |-> log.event, payload |-> log.payload], 0)
    /\ added' = BagAdd(added, << "deliver-webhook", j.loc.log >>)
    /\ SetQueue(qn, BagSwap(QueueOf(qn), j, [j EXCEPT !.pc = "return"]))
    /\ UNCHANGED << storeVars, reqs, respVars, hist, keyed, envVars >>

(* WebhookService.js 61-73: webhookQueue.add rejects (Redis cannot be      *)
(* reached); the catch block logs the error and createWebhookLog returns. *)
CreateWebhookLogEnqueueFail(qn, j) ==
    /\ j \in Jobs(QueueOf(qn)) /\ j.state = "active" /\ j.pc = "wh_enqueue"
    /\ SetQueue(qn, BagSwap(QueueOf(qn), j, [j EXCEPT !.pc = "return"]))
    /\ UNCHANGED << storeVars, webhookQueue, reqs, respVars, added, hist, keyed,
                    envVars >>

SetAnyQueue(qn, q) ==
    IF qn = "webhook"
    THEN webhookQueue' = q /\ UNCHANGED << paymentQueue, refundQueue >>
    ELSE SetQueue(qn, q) /\ UNCHANGED webhookQueue

(* The handler returned its result: the queue marks the job completed. *)
JobReturn(qn, j) ==
    /\ j \in Jobs(QueueOf(qn)) /\ j.state = "active" /\ j.pc = "return"
    /\ SetAnyQueue(qn, QueueComplete(QueueOf(qn), j))
    /\ UNCHANGED << storeVars, reqs, respVars, added, hist, keyed, envVars >>

(* workers/index.js: the handler awaits the job function; a statement of  *)
(* the job function that rejects (the database or Redis is unreachable)   *)
(* is rethrown by its catch block and fails this attempt of the job.      *)
JobThrow(qn, j) ==
    /\ j \in Jobs(QueueOf(qn)) /\ j.state = "active" /\ j.pc # "return"
    /\ SetAnyQueue(qn, QueueThrow(QueueOf(qn), j))
    /\ UNCHANGED << storeVars, reqs, respVars, added, hist, keyed, envVars >>

(* At-least-once delivery: an active job is taken back and run again. *)
JobStall(qn, j) ==
    /\ j \in Jobs(QueueOf(qn)) /\ j.state = "active"
    /\ j.stalled < MaxStalled
    /\ SetAnyQueue(qn, QueueStall(QueueOf(qn), j))
    /\ UNCHANGED << storeVars, reqs, respVars, added, hist, keyed, envVars >>

(***************************************************************************)
(* ProcessPaymentJob.processPayment                                        *)
(***************************************************************************)
(* 179-189: the worker takes the job and loads the payment row *)
ProcessPaymentLoad(j) ==
    /\ j \in Jobs(paymentQueue) /\ Due(j) /\ Free(paymentQueue)
    /\ paymentQueue' =
         IF j.data.paymentId \in DOMAIN payments
         THEN BagSwap(paymentQueue, j,
                      [j EXCEPT !.state = "active", !.due = 0, !.pc = "update"])
         ELSE QueueThrow(paymentQueue, j)
    /\ UNCHANGED << storeVars, refundQueue, webhookQueue, reqs, respVars, added,
                    hist, keyed, envVars >>

(* 191-243: after the simulated delay, draw the outcome and write it *)
ProcessPaymentUpdate(j, isSuccess) ==
    /\ j \in Jobs(paymentQueue) /\ j.state = "active" /\ j.pc = "update"
    /\ payments' =
         [payments EXCEPT ![j.data.paymentId] =
            IF isSuccess
            THEN [@ EXCEPT !.status = "success"]
            ELSE [@ EXCEPT !.status = "failed", !.error_code = "PAYMENT_FAILED"]]
    /\ paymentQueue' = BagSwap(paymentQueue, j,
           [j EXCEPT !.pc = "wh_select", !.loc.ok = isSuccess])
    /\ UNCHANGED << orders, refunds, webhook_logs, idempotency_keys, refundQueue,
                    webhookQueue, reqs, respVars, added, hist, keyed, envVars >>

(***************************************************************************)
(* GET /api/v1/payments/:id                                                *)
(***************************************************************************)
GetPaymentStart(m, id) ==
    /\ BagCardinality(reqs) < MaxReqs
    /\ reqs' = BagAdd(reqs, [NewReq("getPayment", m, NULL, id, [get |-> TRUE])
                               EXCEPT !.pc = "select"])
    /\ UNCHANGED << storeVars, queueVars, respVars, added, hist, keyed, envVars >>

(* payments.js 142-172: read the row of this merchant, answer its fields *)
GetPaymentSelect(r) ==
    /\ r.op = "getPayment" /\ r.pc = "select"
    /\ IF ~(r.target \in DOMAIN payments
            /\ payments[r.target].merchant_id = r.merchant)
       THEN Respond(r, 404, ErrorBody("NOT_FOUND_ERROR", "Payment not found"))
       ELSE LET p == payments[r.target]
            IN Respond(r, 200, JSONStringify(Obj(
                   [id |-> r.target, order_id |-> p.order_id,
                    amount |-> p.amount, method |-> p.method, vpa |-> p.vpa,
                    card_number |-> p.card_number, status |-> p.status,
                    error_code |-> p.error_code, captured |-> p.captured,
                    created_at |-> p.created_at],
                   {k \in {"vpa", "card_number", "error_code"} : p[k] = NULL})))
    /\ UNCHANGED << storeVars, queueVars, added, hist, keyed, envVars >>

(***************************************************************************)
(* POST /api/v1/payments/:id/capture.  `amount` 0 stands for a body       *)
(* without an amount (the code tests `amount && ...`).                     *)
(***************************************************************************)
CapturePaymentStart(m, id, amount) ==
    /\ BagCardinality(reqs) < MaxReqs
    /\ reqs' = BagAdd(reqs, [NewReq("capturePayment", m, NULL, id,
                                    [amount |-> amount])
                               EXCEPT !.pc = "select"])
    /\ UNCHANGED << storeVars, queueVars, respVars, added, hist, keyed, envVars >>

(* payments.js 193-225: read the row, reject unless it is the merchant's, *)
(* in status success and of the given amount                               *)
CapturePaymentSelect(r) ==
    /\ r.op = "capturePayment" /\ r.pc = "select"
    /\ IF ~(r.target \in DOMAIN payments
            /\ payments[r.target].merchant_id = r.merchant)
       THEN Respond(r, 404, ErrorBody("NOT_FOUND_ERROR", "Payment not found"))
       ELSE IF payments[r.target].status # "success"
       THEN Respond(r, 400, ErrorBody("BAD_REQUEST_ERROR",
                            "Payment not in capturable state"))
       ELSE IF r.body.amount # 0 /\ r.body.amount # payments[r.target].amount
       THEN Respond(r, 400, ErrorBody("BAD_REQUEST_ERROR",
                            "Capture amount must match payment amount"))
       ELSE Goto(r, "update") /\ UNCHANGED respVars
    /\ UNCHANGED << storeVars, queueVars, added, hist, keyed, envVars >>

(* payments.js 228-231: UPDATE payments SET captured = true WHERE id = $1 *)
CapturePaymentUpdate(r) ==
    /\ r.op = "capturePayment" /\ r.pc = "update"
    /\ payments' = [payments EXCEPT ![r.target].captured = TRUE]
    /\ Goto(r, "reselect")
    /\ UNCHANGED << orders, refunds, webhook_logs, idempotency_keys, queueVars,
                    respVars, added, hist, keyed, envVars >>

(* payments.js 233-250: read the row again and answer with it *)
CapturePaymentRespond(r) ==
    /\ r.op = "capturePayment" /\ r.pc = "reselect"
    /\ Respond(r, 200, [id |-> r.target,
                        status |-> payments[r.target].status,
                        captured |-> payments[r.target].captured])
    /\ UNCHANGED << storeVars, queueVars, added, hist, keyed, envVars >>

(***************************************************************************)
(* POST /api/v1/payments/:payment_id/refunds                               *)
(***************************************************************************)
(* SELECT COALESCE(SUM(amount), 0) FROM refunds                            *)
(*   WHERE payment_id = $1 AND status IN ('pending', 'processed')          *)
TotalRefundedProcessed(payment_id) ==
    SumOver([i \in DOMAIN refunds |-> refunds[i].amount],
            {i \in DOMAIN refunds :
                 /\ refunds[i].payment_id = payment_id
                 /\ refunds[i].status = "processed"})

TotalRefunded(payment_id) ==
    SumOver([i \in DOMAIN refunds |-> refunds[i].amount],
            {i \in DOMAIN refunds :
                 /\ refunds[i].payment_id = payment_id
                 /\ refunds[i].status \in {"pending", "processed"}})

(* Requests that may still insert a refund row. *)
PendingRefundInserts ==
    SumOver([r \in Reqs |-> CopiesIn(r, reqs)],
            {r \in Reqs : r.op = "createRefund" /\ r.row = 0})

CreateRefundStart(m, payment_id, amount) ==
    /\ BagCardinality(reqs) < MaxReqs
    /\ Len(refunds) + PendingRefundInserts < MaxRefunds
    /\ reqs' = BagAdd(reqs, [NewReq("createRefund", m, NULL, payment_id,
                                    [amount |-> amount])
                               EXCEPT !.pc = "payment"])
    /\ UNCHANGED << storeVars, queueVars, respVars, added, hist, keyed, envVars >>

(* A refund route that looks the payment up by its id alone. *)
CreateRefundPaymentAnyMerchant(r) ==
    /\ r.op = "createRefund" /\ r.pc = "payment"
    /\ IF r.target \notin DOMAIN payments
       THEN Respond(r, 404, ErrorBody("NOT_FOUND_ERROR", "Payment not found"))
       ELSE IF payments[r.target].status # "success"
       THEN Respond(r, 400, ErrorBody("BAD_REQUEST_ERROR",
                            "Payment not in refundable state"))
       ELSE Goto(r, "sum") /\ UNCHANGED respVars
    /\ UNCHANGED << storeVars, queueVars, added, hist, keyed, envVars >>

(* payments.js 271-296: the payment exists, is the merchant's, is success *)
CreateRefundPayment(r) ==
    /\ r.op = "createRefund" /\ r.pc = "payment"
    /\ IF ~(r.target \in DOMAIN payments
            /\ payments[r.target].merchant_id = r.merchant)
       THEN Respond(r, 404, ErrorBody("NOT_FOUND_ERROR", "Payment not found"))
       ELSE IF payments[r.target].status # "success"
       THEN Respond(r, 400, ErrorBody("BAD_REQUEST_ERROR",
                            "Payment not in refundable state"))
       ELSE Goto(r, "sum") /\ UNCHANGED respVars
    /\ UNCHANGED << storeVars, queueVars, added, hist, keyed, envVars >>

(* payments.js 298-326: sum the refunds, validate the amount against it *)
CreateRefundSum(r) ==
    /\ r.op = "createRefund" /\ r.pc = "sum"
    /\ LET totalRefunded == TotalRefunded(r.target)
           availableAmount == payments[r.target].amount - totalRefunded
       IN IF r.body.amount <= 0
          THEN Respond(r, 400, ErrorBody("BAD_REQUEST_ERROR",
                               "Refund amount must be a positive integer"))
          ELSE IF r.body.amount > availableAmount
          THEN Respond(r, 400, ErrorBody("BAD_REQUEST_ERROR",
                               "Refund amount exceeds available amount"))
          ELSE /\ reqs' = BagSwap(reqs, r, [r EXCEPT !.pc = "insert",
                                                     !.read = totalRefunded])
               /\ UNCHANGED respVars
    /\ UNCHANGED << storeVars, queueVars, added, hist, keyed, envVars >>

(* payments.js 328-339: INSERT INTO refunds ... 'pending' *)
CreateRefundInsert(r) ==
    /\ r.op = "createRefund" /\ r.pc = "insert"
    /\ refunds' = Append(refunds,
         [payment_id |-> r.target, merchant_id |-> r.merchant,
          amount |-> r.body.amount, status |-> "pending",
          created_at |-> now, processed_at |-> NULL])
    /\ reqs' = BagSwap(reqs, r, [r EXCEPT !.pc = "enqueue",
                                          !.row = Len(refunds) + 1])
    /\ UNCHANGED << orders, payments, webhook_logs, idempotency_keys, queueVars,
                    respVars, added, hist, keyed, envVars >>

(* payments.js 341-355: refundQueue.add('process-refund', {refundId}), 201 *)
CreateRefundEnqueue(r) ==
    /\ r.op = "createRefund" /\ r.pc = "enqueue"
    /\ refundQueue' = QueueAdd(refundQueue, [refundId |-> r.row], 0)
    /\ added' = BagAdd(added, << "process-refund", r.row >>)
    /\ Respond(r, 201, JSONStringify(Obj(
           [id |-> r.row, payment_id |-> r.target, amount |-> r.body.amount,
            status |-> "pending", created_at |-> refunds[r.row].created_at], {})))
    /\ UNCHANGED << storeVars, paymentQueue, webhookQueue, hist, keyed, envVars >>

(***************************************************************************)
(* ProcessRefundJob.processRefund                                          *)
(***************************************************************************)
(* 14-24: the worker takes the job and loads the refund row *)
ProcessRefundLoad(j) ==
    /\ j \in Jobs(refundQueue) /\ Due(j) /\ Free(refundQueue)
    /\ refundQueue' =
         IF j.data.refundId \in DOMAIN refunds
         THEN BagSwap(refundQueue, j,
                      [j EXCEPT !.state = "active", !.due = 0, !.pc = "payment"])
         ELSE QueueThrow(refundQueue, j)
    /\ UNCHANGED << storeVars, paymentQueue, webhookQueue, reqs, respVars, added,
                    hist, keyed, envVars >>

(* A refund worker that does not verify the payment's status. *)
ProcessRefundPaymentUnchecked(j) ==
    /\ j \in Jobs(refundQueue) /\ j.state = "active" /\ j.pc = "payment"
    /\ refundQueue' = BagSwap(refundQueue, j, [j EXCEPT !.pc = "sum"])
    /\ UNCHANGED << storeVars, paymentQueue, webhookQueue, reqs, respVars, added,
                    hist, keyed, envVars >>

(* 26-41: load the payment, verify it is refundable *)
ProcessRefundPayment(j) ==
    /\ j \in Jobs(refundQueue) /\ j.state = "active" /\ j.pc = "payment"
    /\ LET payment_id == refunds[j.data.refundId].payment_id
       IN refundQueue' =
            IF payment_id \in DOMAIN payments
               /\ payments[payment_id].status = "success"
            THEN BagSwap(refundQueue, j, [j EXCEPT !.pc = "sum"])
            ELSE QueueThrow(refundQueue, j)
    /\ UNCHANGED << storeVars, paymentQueue, webhookQueue, reqs, respVars, added,
                    hist, keyed, envVars >>

(* A refund worker that gives up a refund whose total is too high. *)
ProcessRefundSumMarksFailed(j) ==
    /\ j \in Jobs(refundQueue) /\ j.state = "active" /\ j.pc = "sum"
    /\ LET payment_id == refunds[j.data.refundId].payment_id
           totalRefunded == TotalRefunded(payment_id)
       IN IF totalRefunded > payments[payment_id].amount
          THEN /\ refundQueue' = QueueThrow(refundQueue, j)
               /\ refunds' = [refunds EXCEPT ![j.data.refundId].status = "failed"]
          ELSE /\ refundQueue' = BagSwap(refundQueue, j, [j EXCEPT !.pc = "update"])
               /\ UNCHANGED refunds
    /\ UNCHANGED << orders, payments, webhook_logs, idempotency_keys,
                    paymentQueue, webhookQueue, reqs, respVars, added, hist, keyed,
                    envVars >>

(* A refund worker that does not verify the total. *)
ProcessRefundSumUnchecked(j) ==
    /\ j \in Jobs(refundQueue) /\ j.state = "active" /\ j.pc = "sum"
    /\ refundQueue' = BagSwap(refundQueue, j, [j EXCEPT !.pc = "update"])
    /\ UNCHANGED << storeVars, paymentQueue, webhookQueue, reqs, respVars, added,
                    hist, keyed, envVars >>

(* 43-54: sum the refunds again, verify the total against the payment *)
ProcessRefundSum(j) ==
    /\ j \in Jobs(refundQueue) /\ j.state = "active" /\ j.pc = "sum"
    /\ LET payment_id == refunds[j.data.refundId].payment_id
           totalRefunded == TotalRefunded(payment_id)
       IN refundQueue' =
            IF totalRefunded > payments[payment_id].amount
            THEN QueueThrow(refundQueue, j)
            ELSE BagSwap(refundQueue, j, [j EXCEPT !.pc = "update"])
    /\ UNCHANGED << storeVars, paymentQueue, webhookQueue, reqs, respVars, added,
                    hist, keyed, envVars >>

(* 56-67: after the simulated delay, UPDATE refunds SET status 'processed' *)
ProcessRefundUpdate(j) ==
    /\ j \in Jobs(refundQueue) /\ j.state = "active" /\ j.pc = "update"
    /\ refunds' = [refunds EXCEPT ![j.data.refundId] =
                     [@ EXCEPT !.status = "processed", !.processed_at = now]]
    /\ refundQueue' = BagSwap(refundQueue, j, [j EXCEPT !.pc = "wh_select"])
    /\ UNCHANGED << orders, payments, webhook_logs, idempotency_keys,
                    paymentQueue, webhookQueue, reqs, respVars, added, hist, keyed,
                    envVars >>

(***************************************************************************)
(* DeliverWebhookJob.deliverWebhook                                        *)
(***************************************************************************)
TestIntervals == << 0, 5000, 10000, 15000, 20000 >>
ProdIntervals == << 0, 60000, 300000, 1800000, 7200000 >>

(* A getRetryDelay that looks one entry too far into the table. *)
getRetryDelayShifted(attemptNumber) ==
    IF testMode
    THEN IF attemptNumber + 2 \in DOMAIN TestIntervals
         THEN TestIntervals[attemptNumber + 2] ELSE 20000
    ELSE IF attemptNumber + 2 \in DOMAIN ProdIntervals
         THEN ProdIntervals[attemptNumber + 2] ELSE 7200000

(* intervals[attemptNumber] || last: a JavaScript array is indexed from 0, *)
(* an index outside it yields undefined, and undefined and 0 are falsy.    *)
IndexOr(intervals, attemptNumber, fallback) ==
    IF attemptNumber + 1 \in DOMAIN intervals
       /\ intervals[attemptNumber + 1] # 0
    THEN intervals[attemptNumber + 1]
    ELSE fallback

getRetryDelay(attemptNumber) ==
    IF testMode
    THEN IndexOr(TestIntervals, attemptNumber, 20000)
    ELSE IndexOr(ProdIntervals, attemptNumber, 7200000)

calculateNextRetry(attemptNumber) == now + getRetryDelay(attemptNumber)

(* What the merchant's endpoint can answer; 0 stands for no answer at all *)
(* (connection refused, timeout).                                          *)
ResponseCodes == {200, 500, 0}

(* A delivery that does not look at the merchant's webhook_url. *)
DeliverWebhookStartNoSkip(j) ==
    /\ j \in Jobs(webhookQueue) /\ Due(j) /\ Free(webhookQueue)
    /\ webhookQueue' = BagSwap(webhookQueue, j,
           [j EXCEPT !.state = "active", !.due = 0,
                     !.loc.secret = webhook_secret[j.data.merchantId],
                     !.pc = "log"])
    /\ UNCHANGED << storeVars, paymentQueue, refundQueue, reqs, respVars, added,
                    hist, keyed, envVars >>

(* 15-30: the worker takes the job and loads the merchant's webhook_url *)
DeliverWebhookStart(j) ==
    /\ j \in Jobs(webhookQueue) /\ Due(j) /\ Free(webhookQueue)
    /\ webhookQueue' = BagSwap(webhookQueue, j,
           [j EXCEPT !.state = "active", !.due = 0,
                     !.loc.secret = webhook_secret[j.data.merchantId],
                     !.pc = IF webhook_url[j.data.merchantId]
                            THEN "log" ELSE "return"])
    /\ UNCHANGED << storeVars, paymentQueue, refundQueue, reqs, respVars, added,
                    hist, keyed, envVars >>

(* 32-43: load the log row, currentAttempts = log.attempts + 1 *)
DeliverWebhookLog(j) ==
    /\ j \in Jobs(webhookQueue) /\ j.state = "active" /\ j.pc = "log"
    /\ webhookQueue' =
         IF j.data.webhookLogId \in DOMAIN webhook_logs
         THEN BagSwap(webhookQueue, j,
                [j EXCEPT !.pc = "post",
                          !.loc.attempts =
                              webhook_logs[j.data.webhookLogId].attempts + 1,
                          !.loc.epoch = hist[j.data.webhookLogId].resets])
         ELSE QueueThrow(webhookQueue, j)
    /\ UNCHANGED << storeVars, paymentQueue, refundQueue, reqs, respVars, added,
                    hist, keyed, envVars >>

(* A delivery that also takes 300 for a success. *)
DeliverWebhookPostInclusive(j, code) ==
    /\ j \in Jobs(webhookQueue) /\ j.state = "active" /\ j.pc = "post"
    /\ webhookQueue' = BagSwap(webhookQueue, j,
           [j EXCEPT !.pc = "update", !.loc.code = code,
                     !.loc.body = PayloadString(j.data.payload),
                     !.loc.signature =
                         Hmac(j.loc.secret, PayloadString(j.data.payload)),
                     !.loc.ok = (code >= 200 /\ code <= 300)])
    /\ hist' = [hist EXCEPT ![j.data.webhookLogId].posts = @ + 1]
    /\ UNCHANGED << storeVars, paymentQueue, refundQueue, reqs, respVars, added, keyed,
                    envVars >>

(* A delivery that signs the payload as the log row returns it. *)
DeliverWebhookPostSignsStored(j, code) ==
    /\ j \in Jobs(webhookQueue) /\ j.state = "active" /\ j.pc = "post"
    /\ webhookQueue' = BagSwap(webhookQueue, j,
           [j EXCEPT !.pc = "update", !.loc.code = code,
                     !.loc.body = PayloadString(j.data.payload),
                     !.loc.signature =
                         Hmac(j.loc.secret,
                              PayloadString(Jsonb(
                                  webhook_logs[j.data.webhookLogId].payload))),
                     !.loc.ok = (code >= 200 /\ code < 300)])
    /\ hist' = [hist EXCEPT ![j.data.webhookLogId].posts = @ + 1]
    /\ UNCHANGED << storeVars, paymentQueue, refundQueue, reqs, respVars, added, keyed,
                    envVars >>

(* A delivery whose failed POST makes the handler throw. *)
DeliverWebhookPostThrows(j, code) ==
    /\ j \in Jobs(webhookQueue) /\ j.state = "active" /\ j.pc = "post"
    /\ webhookQueue' =
         IF code >= 200 /\ code < 300
         THEN BagSwap(webhookQueue, j,
                [j EXCEPT !.pc = "update", !.loc.code = code,
                          !.loc.body = PayloadString(j.data.payload),
                          !.loc.signature =
                              Hmac(j.loc.secret, PayloadString(j.data.payload)),
                          !.loc.ok = TRUE])
         ELSE QueueThrow(webhookQueue, j)
    /\ hist' = [hist EXCEPT ![j.data.webhookLogId].posts = @ + 1]
    /\ UNCHANGED << storeVars, paymentQueue, refundQueue, reqs, respVars, added, keyed,
                    envVars >>

(* 45-85: payloadString = JSON.stringify(payload), the signature is the   *)
(* HMAC of payloadString under the secret read at 16-19, the body posted  *)
(* is payloadString; take the response code                               *)
DeliverWebhookPost(j, code) ==
    /\ j \in Jobs(webhookQueue) /\ j.state = "active" /\ j.pc = "post"
    /\ webhookQueue' = BagSwap(webhookQueue, j,
           [j EXCEPT !.pc = "update", !.loc.code = code,
                     !.loc.body = PayloadString(j.data.payload),
                     !.loc.signature =
                         Hmac(j.loc.secret, PayloadString(j.data.payload)),
                     !.loc.ok = (code >= 200 /\ code < 300)])
    /\ hist' = [hist EXCEPT ![j.data.webhookLogId].posts = @ + 1]
    /\ UNCHANGED << storeVars, paymentQueue, refundQueue, reqs, respVars, added, keyed,
                    envVars >>

(* An update step that does not write a failed attempt to the log. *)
DeliverWebhookUpdateUnwritten(j) ==
    /\ j \in Jobs(webhookQueue) /\ j.state = "active" /\ j.pc = "update"
    /\ LET currentAttempts == j.loc.attempts
           id == j.data.webhookLogId
       IN IF j.loc.ok
          THEN /\ webhook_logs' = [webhook_logs EXCEPT ![id] =
                     [@ EXCEPT !.status = "success",
                               !.attempts = currentAttempts,
                               !.last_attempt_at = now,
                               !.response_code = j.loc.code]]
               /\ webhookQueue' = BagSwap(webhookQueue, j,
                                          [j EXCEPT !.pc = "return"])
          ELSE /\ UNCHANGED webhook_logs
               /\ webhookQueue' = BagSwap(webhookQueue, j,
                     [j EXCEPT !.pc = IF currentAttempts < MaxWebhookAttempts
                                      THEN "retry" ELSE "return"])
    /\ hist' = [hist EXCEPT ![j.data.webhookLogId] =
                  [@ EXCEPT !.recorded = @ + 1,
                            !.fresh = IF j.loc.epoch = hist[j.data.webhookLogId].resets
                                      THEN @ + 1 ELSE @]]
    /\ UNCHANGED << orders, payments, refunds, idempotency_keys, paymentQueue,
                    refundQueue, reqs, respVars, added, keyed, envVars >>

(* 87-114: UPDATE webhook_logs with the outcome of the attempt *)
DeliverWebhookUpdate(j) ==
    /\ j \in Jobs(webhookQueue) /\ j.state = "active" /\ j.pc = "update"
    /\ LET currentAttempts == j.loc.attempts
           id == j.data.webhookLogId
       IN IF j.loc.ok
          THEN /\ webhook_logs' = [webhook_logs EXCEPT ![id] =
                     [@ EXCEPT !.status = "success",
                               !.attempts = currentAttempts,
                               !.last_attempt_at = now,
                               !.response_code = j.loc.code]]
               /\ webhookQueue' = BagSwap(webhookQueue, j,
                                          [j EXCEPT !.pc = "return"])
          ELSE /\ webhook_logs' = [webhook_logs EXCEPT ![id] =
                     [@ EXCEPT !.status =
                                   IF currentAttempts >= MaxWebhookAttempts
                                   THEN "failed" ELSE "pending",
                               !.attempts = currentAttempts,
                               !.last_attempt_at = now,
                               !.next_retry_at =
                                   calculateNextRetry(currentAttempts),
                               !.response_code = j.loc.code]]
               /\ webhookQueue' = BagSwap(webhookQueue, j,
                     [j EXCEPT !.pc = IF currentAttempts < MaxWebhookAttempts
                                      THEN "retry" ELSE "return"])
    /\ hist' = [hist EXCEPT ![j.data.webhookLogId] =
                  [@ EXCEPT !.recorded = @ + 1,
                            !.fresh = IF j.loc.epoch = hist[j.data.webhookLogId].resets
                                      THEN @ + 1 ELSE @]]
    /\ UNCHANGED << orders, payments, refunds, idempotency_keys, paymentQueue,
                    refundQueue, reqs, respVars, added, keyed, envVars >>

(* A retry step that forgets to add the job. *)
DeliverWebhookRetryLost(j) ==
    /\ j \in Jobs(webhookQueue) /\ j.state = "active" /\ j.pc = "retry"
    /\ webhookQueue' = BagSwap(webhookQueue, j, [j EXCEPT !.pc = "return"])
    /\ UNCHANGED << storeVars, paymentQueue, refundQueue, reqs, respVars, added,
                    hist, keyed, envVars >>

(* 116-126: webhookQueue.add('deliver-webhook', {...}, {delay: retryDelay}) *)
DeliverWebhookRetry(j) ==
    /\ j \in Jobs(webhookQueue) /\ j.state = "active" /\ j.pc = "retry"
    /\ webhookQueue' =
         QueueAdd(BagSwap(webhookQueue, j, [j EXCEPT !.pc = "return"]),
                  j.data, getRetryDelay(j.loc.attempts))
    /\ added' = BagAdd(added, << "deliver-webhook", j.data.webhookLogId >>)
    /\ UNCHANGED << storeVars, paymentQueue, refundQueue, reqs, respVars, hist, keyed,
                    envVars >>

(***************************************************************************)
(* POST /api/v1/webhooks/test                                              *)
(***************************************************************************)
PendingLogInserts ==
    SumOver([r \in Reqs |-> CopiesIn(r, reqs)],
            {r \in Reqs : r.op = "testWebhook" /\ r.row = 0})

TestWebhookStart(m) ==
    /\ BagCardinality(reqs) < MaxReqs
    /\ Len(webhook_logs) + PendingLogInserts < MaxLogs
    /\ reqs' = BagAdd(reqs, [NewReq("testWebhook", m, NULL, 0, [test |-> TRUE])
                               EXCEPT !.pc = "select"])
    /\ UNCHANGED << storeVars, queueVars, respVars, added, hist, keyed, envVars >>

(* webhooks.js 61-74 *)
TestWebhookSelect(r) ==
    /\ r.op = "testWebhook" /\ r.pc = "select"
    /\ IF ~webhook_url[r.merchant]
       THEN Respond(r, 400, ErrorBody("BAD_REQUEST_ERROR",
                            "Webhook URL not configured"))
       ELSE Goto(r, "insert") /\ UNCHANGED respVars
    /\ UNCHANGED << storeVars, queueVars, added, hist, keyed, envVars >>

(* webhooks.js 76-94 *)
TestWebhookInsert(r) ==
    /\ r.op = "testWebhook" /\ r.pc = "insert"
    /\ webhook_logs' = Append(webhook_logs,
           NewWebhookLog(r.merchant, "webhook.test",
                         WebhookPayload("webhook.test", [test |-> TRUE])))
    /\ hist' = Append(hist, NewHist)
    /\ reqs' = BagSwap(reqs, r, [r EXCEPT !.pc = "enqueue",
                                          !.row = Len(webhook_logs) + 1])
    /\ UNCHANGED << orders, payments, refunds, idempotency_keys, queueVars,
                    respVars, added, keyed, envVars >>

(* webhooks.js 96-107 *)
TestWebhookEnqueue(r) ==
    /\ r.op = "testWebhook" /\ r.pc = "enqueue"
    /\ webhookQueue' = QueueAdd(webhookQueue,
           [webhookLogId |-> r.row, merchantId |-> r.merchant,
            event |-> "webhook.test", payload |-> webhook_logs[r.row].payload], 0)
    /\ added' = BagAdd(added, << "deliver-webhook", r.row >>)
    /\ Respond(r, 200, JSONStringify(Obj([id |-> r.row], {})))
    /\ UNCHANGED << storeVars, paymentQueue, refundQueue, hist, keyed, envVars >>

(***************************************************************************)
(* POST /api/v1/webhooks/:webhook_id/retry                                 *)
(***************************************************************************)
ManualRetries ==
    SumOver([i \in DOMAIN webhook_logs |-> CopiesIn(<< "manual-retry", i >>, added)],
            DOMAIN webhook_logs)
      + CopiesIn(<< "manual-retry", 0 >>, added)

RetryWebhookStart(m, webhook_id) ==
    /\ BagCardinality(reqs) < MaxReqs
    /\ ManualRetries < MaxRetryReqs
    /\ reqs' = BagAdd(reqs, [NewReq("retryWebhook", m, NULL, webhook_id,
                                    [retry |-> TRUE])
                               EXCEPT !.pc = "select"])
    /\ added' = BagAdd(added,
           << "manual-retry",
              IF webhook_id \in DOMAIN webhook_logs THEN webhook_id ELSE 0 >>)
    /\ UNCHANGED << storeVars, queueVars, respVars, hist, keyed, envVars >>

(* webhooks.js 128-143: the log exists and is the merchant's *)
RetryWebhookSelect(r) ==
    /\ r.op = "retryWebhook" /\ r.pc = "select"
    /\ IF ~(r.target \in DOMAIN webhook_logs
            /\ webhook_logs[r.target].merchant_id = r.merchant)
       THEN Respond(r, 404, ErrorBody("NOT_FOUND", "Webhook log not found"))
       ELSE Goto(r, "update") /\ UNCHANGED respVars
    /\ UNCHANGED << storeVars, queueVars, added, hist, keyed, envVars >>

(* A manual retry that sets the log pending and keeps its attempts. *)
RetryWebhookUpdateKeepsAttempts(r) ==
    /\ r.op = "retryWebhook" /\ r.pc = "update"
    /\ webhook_logs' = [webhook_logs EXCEPT ![r.target] =
           [@ EXCEPT !.status = "pending", !.next_retry_at = NULL]]
    /\ hist' = [hist EXCEPT ![r.target] =
                  [posts |-> 0, recorded |-> 0, resets |-> @.resets + 1,
                   fresh |-> 0]]
    /\ Goto(r, "enqueue")
    /\ UNCHANGED << orders, payments, refunds, idempotency_keys, queueVars,
                    respVars, added, keyed, envVars >>

(* webhooks.js 145-151: attempts = 0, status = 'pending', next_retry_at NULL *)
RetryWebhookUpdate(r) ==
    /\ r.op = "retryWebhook" /\ r.pc = "update"
    /\ webhook_logs' = [webhook_logs EXCEPT ![r.target] =
           [@ EXCEPT !.attempts = 0, !.status = "pending",
                     !.next_retry_at = NULL]]
    /\ hist' = [hist EXCEPT ![r.target] =
                  [posts |-> 0, recorded |-> 0, resets |-> @.resets + 1,
                   fresh |-> 0]]
    /\ Goto(r, "enqueue")
    /\ UNCHANGED << orders, payments, refunds, idempotency_keys, queueVars,
                    respVars, added, keyed, envVars >>

(* webhooks.js 153-165: re-enqueue without a delay, answer *)
RetryWebhookEnqueue(r) ==
    /\ r.op = "retryWebhook" /\ r.pc = "enqueue"
    /\ webhookQueue' = QueueAdd(webhookQueue,
           [webhookLogId |-> r.target, merchantId |-> r.merchant,
            event |-> webhook_logs[r.target].event,
            payload |-> Jsonb(webhook_logs[r.target].payload)], 0)
    /\ added' = BagAdd(added, << "deliver-webhook", r.target >>)
    /\ Respond(r, 200, JSONStringify(Obj(
           [id |-> r.target, status |-> "pending"], {})))
    /\ UNCHANGED << storeVars, paymentQueue, refundQueue, hist, keyed, envVars >>

(***************************************************************************)
(* The clock: time passes up to the next instant at which something       *)
(* becomes due (a delayed job, the expiry of an idempotency key).         *)
(***************************************************************************)
Deadlines ==
    {k.expires_at : k \in idempotency_keys}
      \cup {j.due : j \in {x \in Jobs(paymentQueue) \cup Jobs(refundQueue)
                                  \cup Jobs(webhookQueue) : x.state = "delayed"}}

Horizon == MaxDays * IdempotencyTtl

Tick ==
    /\ \E d \in Deadlines : d > now
    /\ now' = Min({d \in Deadlines : d > now})
    /\ now' <= Horizon
    /\ UNCHANGED << testMode, webhook_url, webhook_secret, storeVars, queueVars, reqs, respVars,
                    added, hist, keyed >>

(* The operator edits the merchant row in the database (README, "Option   *)
(* 2: Via Database"); webhook_url is a nullable column and can be cleared. *)
ClearWebhookConfig(m) ==
    /\ webhook_url[m]
    /\ webhook_url' = [webhook_url EXCEPT ![m] = FALSE]
    /\ UNCHANGED << now, testMode, webhook_secret, storeVars, queueVars, reqs,
                    respVars, added, hist, keyed >>

(* POST /api/v1/webhooks/secret/regenerate: a fresh random secret, the    *)
(* next one of the secrets the merchant has had                           *)
Secrets == 1 .. MaxSecrets

RegenerateWebhookSecret(m) ==
    /\ webhook_secret[m] < MaxSecrets
    /\ webhook_secret' = [webhook_secret EXCEPT ![m] = @ + 1]
    /\ UNCHANGED << now, testMode, webhook_url, storeVars, queueVars, reqs,
                    respVars, added, hist, keyed >>

(* test-merchant/webhook-receiver.js 15-46: the receiver recomputes the   *)
(* HMAC of the raw body under its secret and compares it with the header  *)
ReceiverAccepts(secret, rawBody, signature) ==
    signature = Hmac(secret, rawBody)

(* PUT /api/v1/webhooks/config *)
UpdateWebhookConfig(m) ==
    /\ ~webhook_url[m]
    /\ webhook_url' = [webhook_url EXCEPT ![m] = TRUE]
    /\ UNCHANGED << now, testMode, webhook_secret, storeVars, queueVars, reqs,
                    respVars, added, hist, keyed >>

(***************************************************************************)
(* The system after the migrations ran and the services started.          *)
(***************************************************************************)
Init ==
    /\ now = 0
    /\ testMode = FALSE
    /\ webhook_url = [m \in Merchants |-> FALSE]
    /\ webhook_secret = [m \in Merchants |-> 1]
    /\ orders = << >>
    /\ payments = << >>
    /\ refunds = << >>
    /\ webhook_logs = << >>
    /\ idempotency_keys = {}
    /\ paymentQueue = EmptyBag
    /\ refundQueue = EmptyBag
    /\ webhookQueue = EmptyBag
    /\ reqs = EmptyBag
    /\ lastResp = NoResp
    /\ returned = {}
    /\ added = EmptyBag
    /\ hist = << >>
    /\ keyed = EmptyBag

ValidBodies == {b \in PaymentBodies :
                    \/ b.method = "card" /\ b.card
                    \/ b.method = "upi" /\ b.vpa}

(* The steps of the requests in flight and of the active jobs. *)
IdempotencySteps ==
    \/ \E r \in Reqs : CreatePaymentCheck(r)
    \/ \E r \in Reqs : CreatePaymentExpire(r)

CreatePaymentSteps ==
    \/ \E r \in Reqs : CreatePaymentValidate(r)
    \/ \E r \in Reqs : CreatePaymentInsert(r)
    \/ \E r \in Reqs : CreatePaymentEnqueue(r)
    \/ \E r \in Reqs : CreatePaymentStore(r)

CreateRefundSteps ==
    \/ \E r \in Reqs : CreateRefundPayment(r)
    \/ \E r \in Reqs : CreateRefundSum(r)
    \/ \E r \in Reqs : CreateRefundInsert(r)
    \/ \E r \in Reqs : CreateRefundEnqueue(r)

ProcessPaymentSteps ==
    \/ \E j \in Jobs(paymentQueue) : ProcessPaymentLoad(j)
    \/ \E j \in Jobs(paymentQueue), ok \in BOOLEAN : ProcessPaymentUpdate(j, ok)

ProcessRefundSteps ==
    \/ \E j \in Jobs(refundQueue) : ProcessRefundLoad(j)
    \/ \E j \in Jobs(refundQueue) : ProcessRefundPayment(j)
    \/ \E j \in Jobs(refundQueue) : ProcessRefundSum(j)
    \/ \E j \in Jobs(refundQueue) : ProcessRefundUpdate(j)

(* createWebhookLog for a merchant that has a webhook_url *)
CreateWebhookLogSteps(qn) ==
    \/ \E j \in Jobs(QueueOf(qn)) : CreateWebhookLogInsert(qn, j)
    \/ \E j \in Jobs(QueueOf(qn)) : CreateWebhookLogEnqueue(qn, j)

WorkerSteps(qn) ==
    \/ \E j \in Jobs(QueueOf(qn)) : CreateWebhookLogSelect(qn, j)
    \/ \E j \in Jobs(QueueOf(qn)) : JobReturn(qn, j)

(***************************************************************************)
(* SpecIdem: payment creation with idempotency keys, by both merchants,    *)
(* with every request body, while the clock runs past the keys' expiry.    *)
(***************************************************************************)
NextIdem ==
    \/ \E m \in Merchants : CreateOrder(m, 1)
    \/ \E m \in Merchants, k \in Keys \cup {NULL}, o \in 1 .. MaxOrders,
         b \in PaymentBodies : CreatePaymentStart(m, k, o, b)
    \/ IdempotencySteps
    \/ CreatePaymentSteps
    \/ Tick

SpecIdem == Init /\ [][NextIdem]_vars

(***************************************************************************)
(* SpecRefund: payments are created and processed, refunds are created    *)
(* and processed, jobs are redelivered.  No merchant has configured a     *)
(* webhook_url (the seed merchant's is NULL), so createWebhookLog returns *)
(* after its SELECT.                                                       *)
(***************************************************************************)
NextRefund ==
    \/ \E a \in Amounts : CreateOrder("mA", a)
    \/ \E o \in 1 .. MaxOrders :
         /\ Len(payments) + PendingInserts < MaxRefundPayments
         /\ CreatePaymentStart("mA", NULL, o,
                               [method |-> "upi", card |-> FALSE, vpa |-> TRUE])
    \/ CreatePaymentSteps
    \/ ProcessPaymentSteps
    \/ WorkerSteps("payment")
    \/ \E j \in Jobs(paymentQueue) : JobStall("payment", j)
    \/ \E m \in Merchants, p \in 1 .. MaxPayments, a \in 0 .. MaxAmount :
         CreateRefundStart(m, p, a)
    \/ CreateRefundSteps
    \/ ProcessRefundSteps
    \/ WorkerSteps("refund")
    \/ \E j \in Jobs(refundQueue) : JobStall("refund", j)
    \/ Tick

SpecRefund == Init /\ [][NextRefund]_vars

(***************************************************************************)
(* SpecWebhook: the delivery engine.  Merchants configure their URL, test  *)
(* webhooks create logs, the worker delivers them against an endpoint that *)
(* answers anything, operators retry logs by hand.                         *)
(***************************************************************************)
InitWebhook ==
    /\ now = 0
    /\ testMode \in BOOLEAN
    /\ webhook_url = [m \in Merchants |-> FALSE]
    /\ webhook_secret = [m \in Merchants |-> 1]
    /\ orders = << >>
    /\ payments = << >>
    /\ refunds = << >>
    /\ webhook_logs = << >>
    /\ idempotency_keys = {}
    /\ paymentQueue = EmptyBag
    /\ refundQueue = EmptyBag
    /\ webhookQueue = EmptyBag
    /\ reqs = EmptyBag
    /\ lastResp = NoResp
    /\ returned = {}
    /\ added = EmptyBag
    /\ hist = << >>
    /\ keyed = EmptyBag

DeliverWebhookSteps ==
    \/ \E j \in Jobs(webhookQueue) : DeliverWebhookStart(j)
    \/ \E j \in Jobs(webhookQueue) : DeliverWebhookLog(j)
    \/ \E j \in Jobs(webhookQueue), c \in ResponseCodes : DeliverWebhookPost(j, c)
    \/ \E j \in Jobs(webhookQueue) : DeliverWebhookUpdate(j)
    \/ \E j \in Jobs(webhookQueue) : DeliverWebhookRetry(j)
    \/ \E j \in Jobs(webhookQueue) : JobReturn("webhook", j)

NextWebhook ==
    \/ UpdateWebhookConfig("mA")
    \/ TestWebhookStart("mA")
    \/ \E r \in Reqs : TestWebhookSelect(r)
    \/ \E r \in Reqs : TestWebhookInsert(r)
    \/ \E r \in Reqs : TestWebhookEnqueue(r)
    \/ \E m \in Merchants, id \in 1 .. MaxLogs : RetryWebhookStart(m, id)
    \/ \E r \in Reqs : RetryWebhookSelect(r)
    \/ \E r \in Reqs : RetryWebhookUpdate(r)
    \/ \E r \in Reqs : RetryWebhookEnqueue(r)
    \/ DeliverWebhookSteps
    \/ Tick

SpecWebhook == InitWebhook /\ [][NextWebhook]_vars

(***************************************************************************)
(* SpecDeliver: the delivery engine left to itself.  Logs are created by  *)
(* test webhooks, nobody asks for a manual retry, and the worker process  *)
(* and the request handlers keep running: a step that stays possible is   *)
(* eventually taken, and time passes.                                      *)
(***************************************************************************)
TestWebhookSteps ==
    \/ \E r \in Reqs : TestWebhookSelect(r)
    \/ \E r \in Reqs : TestWebhookInsert(r)
    \/ \E r \in Reqs : TestWebhookEnqueue(r)

NextDeliver ==
    \/ UpdateWebhookConfig("mA")
    \/ TestWebhookStart("mA")
    \/ TestWebhookSteps
    \/ DeliverWebhookSteps
    \/ Tick

SpecDeliver ==
    /\ InitWebhook /\ [][NextDeliver]_vars
    /\ WF_vars(\E r \in Reqs : TestWebhookSelect(r))
    /\ WF_vars(\E r \in Reqs : TestWebhookInsert(r))
    /\ WF_vars(\E r \in Reqs : TestWebhookEnqueue(r))
    /\ WF_vars(\E j \in Jobs(webhookQueue) : DeliverWebhookStart(j))
    /\ WF_vars(\E j \in Jobs(webhookQueue) : DeliverWebhookLog(j))
    /\ WF_vars(\E j \in Jobs(webhookQueue), c \in ResponseCodes :
                  DeliverWebhookPost(j, c))
    /\ WF_vars(\E j \in Jobs(webhookQueue) : DeliverWebhookUpdate(j))
    /\ WF_vars(\E j \in Jobs(webhookQueue) : DeliverWebhookRetry(j))
    /\ WF_vars(\E j \in Jobs(webhookQueue) : JobReturn("webhook", j))
    /\ WF_vars(Tick)

(***************************************************************************)
(* SpecAnswer: one chain of deliveries against an endpoint that answers   *)
(* with status codes on both sides of the 2xx range, or not at all (0).    *)
(***************************************************************************)
EndpointCodes == {0, 199, 200, 299, 300, 500}

NextAnswer ==
    \/ UpdateWebhookConfig("mA")
    \/ TestWebhookStart("mA")
    \/ TestWebhookSteps
    \/ \E j \in Jobs(webhookQueue) : DeliverWebhookStart(j)
    \/ \E j \in Jobs(webhookQueue) : DeliverWebhookLog(j)
    \/ \E j \in Jobs(webhookQueue), c \in EndpointCodes : DeliverWebhookPost(j, c)
    \/ \E j \in Jobs(webhookQueue) : DeliverWebhookUpdate(j)
    \/ \E j \in Jobs(webhookQueue) : DeliverWebhookRetry(j)
    \/ \E j \in Jobs(webhookQueue) : JobReturn("webhook", j)
    \/ Tick

SpecAnswer == InitWebhook /\ [][NextAnswer]_vars

(***************************************************************************)
(* SpecSkip: deliveries of a merchant whose webhook_url is set and        *)
(* cleared again while logs and jobs exist.                                *)
(***************************************************************************)
NextSkip ==
    \/ UpdateWebhookConfig("mA")
    \/ ClearWebhookConfig("mA")
    \/ TestWebhookStart("mA")
    \/ TestWebhookSteps
    \/ DeliverWebhookSteps
    \/ Tick

SpecSkip == InitWebhook /\ [][NextSkip]_vars

(***************************************************************************)
(* SpecSign: deliveries of test webhooks and of manually retried logs     *)
(* (whose payload comes back from the JSONB column) to an endpoint that   *)
(* accepts, while the merchant regenerates its secret.                    *)
(***************************************************************************)
NextSign ==
    \/ UpdateWebhookConfig("mA")
    \/ RegenerateWebhookSecret("mA")
    \/ TestWebhookStart("mA")
    \/ TestWebhookSteps
    \/ RetryWebhookStart("mA", 1)
    \/ \E r \in Reqs : RetryWebhookSelect(r)
    \/ \E r \in Reqs : RetryWebhookUpdate(r)
    \/ \E r \in Reqs : RetryWebhookEnqueue(r)
    \/ \E j \in Jobs(webhookQueue) : DeliverWebhookStart(j)
    \/ \E j \in Jobs(webhookQueue) : DeliverWebhookLog(j)
    \/ \E j \in Jobs(webhookQueue) : DeliverWebhookPost(j, 200)
    \/ \E j \in Jobs(webhookQueue) : DeliverWebhookUpdate(j)
    \/ \E j \in Jobs(webhookQueue) : JobReturn("webhook", j)

SpecSign == InitWebhook /\ [][NextSign]_vars

(***************************************************************************)
(* SpecPay: payments are created and the payment worker keeps running;    *)
(* the merchant may have configured a webhook_url by then.                 *)
(***************************************************************************)
NextPay ==
    \/ UpdateWebhookConfig("mA")
    \/ \E a \in Amounts : CreateOrder("mA", a)
    \/ \E o \in 1 .. MaxOrders, b \in ValidBodies :
         CreatePaymentStart("mA", NULL, o, b)
    \/ CreatePaymentSteps
    \/ ProcessPaymentSteps
    \/ WorkerSteps("payment")
    \/ CreateWebhookLogSteps("payment")

SpecPay ==
    /\ Init /\ [][NextPay]_vars
    /\ WF_vars(\E r \in Reqs : CreatePaymentValidate(r))
    /\ WF_vars(\E r \in Reqs : CreatePaymentInsert(r))
    /\ WF_vars(\E r \in Reqs : CreatePaymentEnqueue(r))
    /\ WF_vars(\E r \in Reqs : CreatePaymentStore(r))
    /\ WF_vars(\E j \in Jobs(paymentQueue) : ProcessPaymentLoad(j))
    /\ WF_vars(\E j \in Jobs(paymentQueue), ok \in BOOLEAN :
                  ProcessPaymentUpdate(j, ok))
    /\ WF_vars(\E j \in Jobs(paymentQueue) : CreateWebhookLogSelect("payment", j))
    /\ WF_vars(\E j \in Jobs(paymentQueue) : CreateWebhookLogInsert("payment", j))
    /\ WF_vars(\E j \in Jobs(paymentQueue) : CreateWebhookLogEnqueue("payment", j))
    /\ WF_vars(\E j \in Jobs(paymentQueue) : JobReturn("payment", j))

(***************************************************************************)
(* SpecNotify: payments and refunds are created and processed while the   *)
(* merchant may configure a webhook_url at any moment; the payment job    *)
(* may be redelivered.                                                     *)
(***************************************************************************)
NextNotify ==
    \/ UpdateWebhookConfig("mA")
    \/ \E a \in Amounts : CreateOrder("mA", a)
    \/ \E o \in 1 .. MaxOrders :
         /\ Len(payments) + PendingInserts < MaxRefundPayments
         /\ CreatePaymentStart("mA", NULL, o,
                               [method |-> "upi", card |-> FALSE, vpa |-> TRUE])
    \/ CreatePaymentSteps
    \/ ProcessPaymentSteps
    \/ WorkerSteps("payment")
    \/ CreateWebhookLogSteps("payment")
    \/ \E p \in 1 .. MaxRefundPayments, a \in Amounts :
         CreateRefundStart("mA", p, a)
    \/ CreateRefundSteps
    \/ ProcessRefundSteps
    \/ WorkerSteps("refund")
    \/ CreateWebhookLogSteps("refund")
    \/ \E j \in Jobs(paymentQueue) : JobStall("payment", j)

SpecNotify == Init /\ [][NextNotify]_vars

(***************************************************************************)
(* SpecCapture: payments are created and processed by a worker whose jobs *)
(* the queue may deliver again, and merchants capture them.                *)
(***************************************************************************)
CapturePaymentSteps ==
    \/ \E r \in Reqs : CapturePaymentSelect(r)
    \/ \E r \in Reqs : CapturePaymentUpdate(r)
    \/ \E r \in Reqs : CapturePaymentRespond(r)

NextCapture ==
    \/ \E a \in Amounts : CreateOrder("mA", a)
    \/ \E o \in 1 .. MaxOrders :
         /\ Len(payments) + PendingInserts < MaxRefundPayments
         /\ CreatePaymentStart("mA", NULL, o,
                               [method |-> "upi", card |-> FALSE, vpa |-> TRUE])
    \/ CreatePaymentSteps
    \/ ProcessPaymentSteps
    \/ WorkerSteps("payment")
    \/ \E j \in Jobs(paymentQueue) : JobStall("payment", j)
    \/ \E m \in Merchants, p \in 1 .. MaxPayments, a \in 0 .. MaxAmount :
         CapturePaymentStart(m, p, a)
    \/ CapturePaymentSteps

SpecCapture == Init /\ [][NextCapture]_vars

(***************************************************************************)
(* SpecScope: two merchants, each with an order of its own, create        *)
(* payments under the same idempotency key while the clock runs past the  *)
(* expiry of the records.                                                  *)
(***************************************************************************)
InitScope ==
    /\ now = 0
    /\ testMode = FALSE
    /\ webhook_url = [m \in Merchants |-> FALSE]
    /\ webhook_secret = [m \in Merchants |-> 1]
    /\ orders = << [merchant_id |-> "mA", amount |-> 1, status |-> "created"],
                   [merchant_id |-> "mB", amount |-> 1, status |-> "created"] >>
    /\ payments = << >>
    /\ refunds = << >>
    /\ webhook_logs = << >>
    /\ idempotency_keys = {}
    /\ paymentQueue = EmptyBag
    /\ refundQueue = EmptyBag
    /\ webhookQueue = EmptyBag
    /\ reqs = EmptyBag
    /\ lastResp = NoResp
    /\ returned = {}
    /\ added = EmptyBag
    /\ hist = << >>
    /\ keyed = EmptyBag

NextScope ==
    \/ \E m \in Merchants, k \in Keys, o \in DOMAIN orders :
         CreatePaymentStart(m, k, o,
                            [method |-> "upi", card |-> FALSE, vpa |-> TRUE])
    \/ IdempotencySteps
    \/ CreatePaymentSteps
    \/ Tick

SpecScope == InitScope /\ [][NextScope]_vars

(***************************************************************************)
(* SpecIdemFault: SpecIdem with a database and a queue that can fail: the *)
(* idempotency SELECT, DELETE and upsert may raise a storage error and    *)
(* paymentQueue.add may reject.                                            *)
(***************************************************************************)
FaultSteps ==
    \/ \E r \in Reqs : CreatePaymentCheckFail(r)
    \/ \E r \in Reqs : CreatePaymentExpireFail(r)
    \/ \E r \in Reqs : CreatePaymentEnqueueFail(r)
    \/ \E r \in Reqs : CreatePaymentStoreFail(r)

FaultBodies ==
    { [method |-> "upi", card |-> FALSE, vpa |-> TRUE],
      [method |-> "netbanking", card |-> FALSE, vpa |-> FALSE] }

NextIdemFault ==
    \/ CreateOrder("mA", 1)
    \/ \E k \in Keys, o \in 1 .. MaxOrders, b \in FaultBodies :
         CreatePaymentStart("mA", k, o, b)
    \/ IdempotencySteps
    \/ CreatePaymentSteps
    \/ FaultSteps
    \/ Tick

SpecIdemFault == Init /\ [][NextIdemFault]_vars

(***************************************************************************)
(* SpecThrow: a client that waits for the work it caused to finish before *)
(* it sends the next request creates a payment, refunds it and sends test *)
(* webhooks; any statement of a running job may reject, so that the       *)
(* queue's own retry policy decides whether the job runs again.           *)
(***************************************************************************)
QueueNames == {"payment", "refund", "webhook"}

Quiet ==
    /\ reqs = EmptyBag
    /\ \A qn \in QueueNames : QueueOf(qn) = EmptyBag

NextThrow ==
    \/ Quiet /\ CreateOrder("mA", 1)
    \/ /\ Quiet
       /\ Len(payments) + PendingInserts < MaxRefundPayments
       /\ CreatePaymentStart("mA", NULL, 1,
                             [method |-> "upi", card |-> FALSE, vpa |-> TRUE])
    \/ CreatePaymentSteps
    \/ ProcessPaymentSteps
    \/ WorkerSteps("payment")
    \/ /\ Quiet
       /\ Len(refunds) + PendingRefundInserts < 1
       /\ CreateRefundStart("mA", 1, 1)
    \/ CreateRefundSteps
    \/ ProcessRefundSteps
    \/ WorkerSteps("refund")
    \/ Quiet /\ UpdateWebhookConfig("mB")
    \/ Quiet /\ TestWebhookStart("mB")
    \/ TestWebhookSteps
    \/ \E j \in Jobs(webhookQueue) : DeliverWebhookStart(j)
    \/ \E j \in Jobs(webhookQueue) : DeliverWebhookLog(j)
    \/ \E j \in Jobs(webhookQueue) : DeliverWebhookPost(j, 200)
    \/ \E j \in Jobs(webhookQueue) : DeliverWebhookUpdate(j)
    \/ \E j \in Jobs(webhookQueue) : JobReturn("webhook", j)
    \/ \E qn \in QueueNames : \E j \in Jobs(QueueOf(qn)) : JobThrow(qn, j)
    \/ Tick

SpecThrow == Init /\ [][NextThrow]_vars

(***************************************************************************)
(* SpecSettle: a payment is created and processed once, refunds of it are *)
(* requested concurrently and processed by the refund worker, whose jobs  *)
(* may be redelivered and are retried by the queue when the handler       *)
(* throws; the merchant may configure a webhook_url at any moment.        *)
(***************************************************************************)
NextSettle ==
    \/ UpdateWebhookConfig("mA")
    \/ \E a \in Amounts : CreateOrder("mA", a)
    \/ \E o \in 1 .. MaxOrders :
         /\ Len(payments) + PendingInserts < MaxRefundPayments
         /\ CreatePaymentStart("mA", NULL, o,
                               [method |-> "upi", card |-> FALSE, vpa |-> TRUE])
    \/ CreatePaymentSteps
    \/ ProcessPaymentSteps
    \/ WorkerSteps("payment")
    \/ CreateWebhookLogSteps("payment")
    \/ \E p \in 1 .. MaxRefundPayments, a \in Amounts :
         CreateRefundStart("mA", p, a)
    \/ CreateRefundSteps
    \/ ProcessRefundSteps
    \/ WorkerSteps("refund")
    \/ CreateWebhookLogSteps("refund")
    \/ \E j \in Jobs(refundQueue) : JobStall("refund", j)
    \/ Tick

SpecSettle == Init /\ [][NextSettle]_vars

(***************************************************************************)
(* SpecStuck: the environment of SpecNotify with the clock running, so    *)
(* that a refund job whose handler threw is run again by the queue until  *)
(* its attempts are used up.                                               *)
(***************************************************************************)
SpecStuck == Init /\ [][NextNotify \/ Tick]_vars

(***************************************************************************)
(* SpecDelay: getRetryDelay called with every attempt number up to        *)
(* MaxAttemptNumber, in production and in test mode; `returned` collects  *)
(* what the calls returned.                                                *)
(***************************************************************************)
CallGetRetryDelay(attemptNumber) ==
    /\ returned' = returned \cup {[attemptNumber |-> attemptNumber,
                                   delay |-> getRetryDelay(attemptNumber)]}
    /\ UNCHANGED << storeVars, queueVars, reqs, lastResp, added, hist, keyed,
                    envVars >>

SpecDelay ==
    InitWebhook /\ [][\E n \in 0 .. MaxAttemptNumber : CallGetRetryDelay(n)]_vars

(***************************************************************************)
(* SpecOrphan: the environment of SpecPay with a queue that may reject    *)
(* the deliver-webhook job createWebhookLog adds.                          *)
(***************************************************************************)
SpecOrphan ==
    Init /\ [][\/ NextPay
               \/ \E j \in Jobs(paymentQueue) :
                     CreateWebhookLogEnqueueFail("payment", j)]_vars

(***************************************************************************)
(* SpecIsolate: each of the two merchants has created an order.  One       *)
(* request at a time, merchant mA pays its order, and merchant mB sends    *)
(* requests that name any order, payment or webhook log, its own, mA's or  *)
(* none, with or without an idempotency key, while the payment worker runs *)
(* and the clock runs past the keys' expiry.                               *)
(***************************************************************************)
InitIsolate ==
    /\ now = 0
    /\ testMode = FALSE
    /\ webhook_url = [m \in Merchants |-> FALSE]
    /\ webhook_secret = [m \in Merchants |-> 1]
    /\ orders = << [merchant_id |-> "mA", amount |-> 1, status |-> "created"],
                   [merchant_id |-> "mB", amount |-> 1, status |-> "created"] >>
    /\ payments = << >>
    /\ refunds = << >>
    /\ webhook_logs = << >>
    /\ idempotency_keys = {}
    /\ paymentQueue = EmptyBag
    /\ refundQueue = EmptyBag
    /\ webhookQueue = EmptyBag
    /\ reqs = EmptyBag
    /\ lastResp = NoResp
    /\ returned = {}
    /\ added = EmptyBag
    /\ hist = << >>
    /\ keyed = EmptyBag

SpecIsolate ==
    InitIsolate
      /\ [][\/ reqs = EmptyBag /\ UpdateWebhookConfig("mA")
            \/ /\ reqs = EmptyBag
               /\ Len(payments) + PendingInserts < MaxRefundPayments
               /\ CreatePaymentStart("mA", NULL, 1,
                      [method |-> "upi", card |-> FALSE, vpa |-> TRUE])
            \/ /\ reqs = EmptyBag
               /\ \E k \in Keys \cup {NULL}, o \in 1 .. MaxOrders + 2 :
                     /\ \/ Len(payments) < MaxRefundPayments
                        \/ k # NULL /\ IdempotencyRows(k, "mB") # {}
                     /\ CreatePaymentStart("mB", k, o,
                            [method |-> "upi", card |-> FALSE, vpa |-> TRUE])
            \/ IdempotencySteps
            \/ CreatePaymentSteps
            \/ ProcessPaymentSteps
            \/ WorkerSteps("payment")
            \/ CreateWebhookLogSteps("payment")
            \/ /\ reqs = EmptyBag
               /\ \E p \in 1 .. MaxPayments + 1 : GetPaymentStart("mB", p)
            \/ \E r \in Reqs : GetPaymentSelect(r)
            \/ /\ reqs = EmptyBag
               /\ \E p \in 1 .. MaxPayments + 1 :
                     CapturePaymentStart("mB", p, 0)
            \/ CapturePaymentSteps
            \/ /\ reqs = EmptyBag
               /\ \E p \in 1 .. MaxPayments + 1 :
                     CreateRefundStart("mB", p, 1)
            \/ CreateRefundSteps
            \/ /\ reqs = EmptyBag
               /\ \E id \in 1 .. MaxLogs + 1 : RetryWebhookStart("mB", id)
            \/ \E r \in Reqs : RetryWebhookSelect(r)
            \/ Tick]_vars

(***************************************************************************)
(*                              The claims                                 *)
(***************************************************************************)

(* C1: for every payment, the amounts of its refunds whose status is       *)
(* pending or processed sum to at most the payment's amount, in every      *)
(* reachable state, under any interleaving of refund-creation requests and *)
(* refund-worker executions.                                               *)
C1_RefundSumWithinPayment ==
    \A p \in DOMAIN payments : TotalRefunded(p) <= payments[p].amount

(* C2: a payment whose status is success or failed never changes status    *)
(* again, whatever runs next, a redelivered process-payment job included.  *)
C2_TerminalStatusIsFinal ==
    [][\A p \in DOMAIN payments :
          payments[p].status \in {"success", "failed"}
             => payments'[p].status = payments[p].status]_vars

(* C3: once a keyed payment-creation request has been answered 201, every  *)
(* request of the same merchant with the same key that starts after that   *)
(* answer and is itself answered before the 24h expiry gets 201 with the   *)
(* identical body and has inserted no payment row (so enqueued no job).    *)
C3_ReplayReturnsSameResponse ==
    (lastResp.op = "createPayment" /\ lastResp.key # NULL)
       => \A e \in lastResp.prior :
             lastResp.at < e.at + IdempotencyTtl
                => /\ lastResp.code = 201
                   /\ lastResp.body = e.body
                   /\ lastResp.row = 0

(* C4: among the payment-creation requests that carry the same key and     *)
(* merchant, overlapping ones included, at most one inserts a payment row  *)
(* (no key has expired while now < IdempotencyTtl).                        *)
C4_OneRowPerKey ==
    now < IdempotencyTtl
       => \A k \in Keys, m \in Merchants : CopiesIn(<< k, m >>, keyed) <= 1

(* C5: every payment-creation request that got past validation inserted    *)
(* one pending row and enqueued one process-payment job for it; nothing    *)
(* else enqueues such a job, so a payment id has at most one job ever,     *)
(* and a refund id at most one process-refund job ever.                    *)
AddsOf(name, id) == CopiesIn(<< name, id >>, added)

Enqueuing(op, id) ==
    \E r \in Reqs : r.op = op /\ r.row = id /\ r.pc = "enqueue"

RetryTable(k) == IF testMode THEN TestIntervals[k + 1] ELSE ProdIntervals[k + 1]

JobsFor(q, i) ==
    SumOver([j \in Jobs(q) |-> CopiesIn(j, q)],
            {j \in Jobs(q) : j.data.webhookLogId = i})

(* C6: a failed delivery of a log whose row it loaded with attempts = n    *)
(* writes attempts = n+1; for n < 4 it writes status pending and           *)
(* next_retry_at = now + table[n+1] and then adds exactly one              *)
(* deliver-webhook job, delayed by table[n+1]; for n = 4 (the fifth        *)
(* failure) it writes status failed and returns without adding a job.      *)
C6_FailedDeliveryReschedules ==
    [][\A j \in Jobs(webhookQueue) :
          LET id == j.data.webhookLogId
              n == j.loc.attempts - 1
          IN /\ (DeliverWebhookUpdate(j) /\ ~j.loc.ok) =>
                   /\ webhook_logs'[id].attempts = n + 1
                   /\ JobsFor(webhookQueue', id) = JobsFor(webhookQueue, id)
                   /\ n < 4 =>
                        /\ webhook_logs'[id].status = "pending"
                        /\ webhook_logs'[id].next_retry_at
                             = now + RetryTable(n + 1)
                        /\ [j EXCEPT !.pc = "retry"] \in Jobs(webhookQueue')
                   /\ n >= 4 =>
                        /\ webhook_logs'[id].status = "failed"
                        /\ [j EXCEPT !.pc = "return"] \in Jobs(webhookQueue')
             /\ DeliverWebhookRetry(j) =>
                   /\ n < 4 /\ ~j.loc.ok
                   /\ JobsFor(webhookQueue', id) = JobsFor(webhookQueue, id) + 1
                   /\ \E k \in Jobs(webhookQueue') :
                         /\ k.data = j.data /\ k.state = "delayed"
                         /\ k.due = now + RetryTable(n + 1)
                         /\ CopiesIn(k, webhookQueue')
                              = CopiesIn(k, webhookQueue) + 1
             /\ (j.pc = "return" /\ JobReturn("webhook", j)) =>
                   JobsFor(webhookQueue', id) = JobsFor(webhookQueue, id) - 1]_vars

(* C6's case: five failed deliveries in a row, no manual retry: the log    *)
(* is failed with attempts 5 and no job is left for it.                    *)
C6_Witness ==
    \E i \in DOMAIN webhook_logs :
       /\ webhook_logs[i].status = "failed" /\ webhook_logs[i].attempts = 5
       /\ hist[i].resets = 0 /\ hist[i].recorded = 5
       /\ JobsFor(webhookQueue, i) = 0

(* C7: the attempts counter of a webhook log never exceeds 5, also when a  *)
(* manual retry is issued while an automatic retry job is delayed/active.  *)
C7_AttemptsWithinCeiling ==
    \A i \in DOMAIN webhook_logs : webhook_logs[i].attempts <= MaxWebhookAttempts

(* C8: once a log's status is success, only a manual retry request moves   *)
(* it out of success; no deliver-webhook job execution does.               *)
C8_SuccessIsTerminal ==
    [][\A i \in DOMAIN webhook_logs :
          (webhook_logs[i].status = "success"
             /\ webhook_logs'[i].status # "success")
            => hist'[i].resets = hist[i].resets + 1]_vars

(* C9: after a manual retry of a log, the first failed delivery that       *)
(* loaded the log after the reset records attempts = 1, status pending     *)
(* and next_retry_at = now + table[1].                                     *)
C9_ManualRetryRestartsSchedule ==
    [][\A j \in Jobs(webhookQueue) :
          LET id == j.data.webhookLogId
          IN (/\ DeliverWebhookUpdate(j) /\ ~j.loc.ok
              /\ hist[id].resets > 0 /\ j.loc.epoch = hist[id].resets
              /\ hist[id].fresh = 0)
               => /\ webhook_logs'[id].attempts = 1
                  /\ webhook_logs'[id].status = "pending"
                  /\ webhook_logs'[id].next_retry_at = now + RetryTable(1)]_vars

(* C10: whenever no delivery of a log stands between its POST and the      *)
(* write of the outcome, the log's attempts counter equals the number of   *)
(* POSTs made for it since it was created or last manually reset.          *)
C10_AttemptsCountsPosts ==
    \A i \in DOMAIN webhook_logs :
       (\A j \in Jobs(webhookQueue) :
           ~(j.data.webhookLogId = i /\ j.state = "active" /\ j.pc = "update"))
         => webhook_logs[i].attempts = hist[i].posts

Notified(qn, j) ==
    LET i == j.loc.log
    IN /\ i \in DOMAIN webhook_logs
       /\ AddsOf("deliver-webhook", i) >= 1
       /\ IF qn = "payment"
          THEN /\ webhook_logs[i].merchant_id
                    = payments[j.data.paymentId].merchant_id
               /\ webhook_logs[i].event
                    = (IF j.loc.ok THEN "payment.success" ELSE "payment.failed")
               /\ webhook_logs[i].payload[Field(webhook_logs[i].payload, "data")][2]
                      .payment = j.data.paymentId
          ELSE /\ webhook_logs[i].merchant_id
                    = refunds[j.data.refundId].merchant_id
               /\ webhook_logs[i].event = "refund.processed"
               /\ webhook_logs[i].payload[Field(webhook_logs[i].payload, "data")][2]
                      .refund = j.data.refundId

LogsStartPending ==
    Len(webhook_logs') > Len(webhook_logs)
       => /\ Len(webhook_logs') = Len(webhook_logs) + 1
          /\ webhook_logs'[Len(webhook_logs')].status = "pending"
          /\ webhook_logs'[Len(webhook_logs')].attempts = 0

C14_NoPendingRowWithoutJob ==
    /\ \A p \in DOMAIN payments :
          payments[p].status = "pending"
            => \/ AddsOf("process-payment", p) >= 1
               \/ Enqueuing("createPayment", p)
    /\ lastResp.op = "createPayment" /\ lastResp.code # 201 => lastResp.row = 0


(***************************************************************************)
(* C15.  In every reachable state a payment carries its error fields      *)
(* (error_code, written together with error_description) if and only if   *)
(* its status is failed, also after a redelivered process-payment job.    *)
(***************************************************************************)
C15_ErrorFieldsIffFailed ==
    \A p \in DOMAIN payments :
       payments[p].error_code # NULL <=> payments[p].status = "failed"


(***************************************************************************)
(* C16.  In every reachable state a captured payment has status success:  *)
(* capture sets the flag only for a payment in status success, and no     *)
(* later operation leaves a captured payment in another status.           *)
(***************************************************************************)
C16_CapturedImpliesSuccess ==
    \A p \in DOMAIN payments :
       payments[p].captured => payments[p].status = "success"


(***************************************************************************)
(* C17.  A refund-creation request is rejected with 400, and the step     *)
(* that rejects it inserts no refund row, adds no job and changes nothing *)
(* of the refund state, when the payment row it reads is not in status    *)
(* success, when its amount is missing or not positive, and when its      *)
(* amount exceeds the payment's amount minus the sum of the payment's     *)
(* pending and processed refunds at the moment the route sums them.       *)
(* No rejected request has inserted a row.                                 *)
(***************************************************************************)
RefundedSum(p) ==
    SumOver([i \in DOMAIN refunds |-> refunds[i].amount],
            {i \in DOMAIN refunds : /\ refunds[i].payment_id = p
                                    /\ refunds[i].status \in {"pending", "processed"}})

RefundRejected(r) ==
    /\ lastResp'.op = "createRefund" /\ lastResp'.code = 400
    /\ lastResp'.row = 0 /\ lastResp'.target = r.target
    /\ CopiesIn(r, reqs') = CopiesIn(r, reqs) - 1
    /\ refunds' = refunds /\ refundQueue' = refundQueue /\ added' = added
    /\ payments' = payments

C17_BadRefundIsRejected ==
    [][/\ \A r \in Reqs :
            /\ ( /\ CreateRefundPayment(r)
                 /\ r.target \in DOMAIN payments
                 /\ payments[r.target].merchant_id = r.merchant
                 /\ payments[r.target].status # "success" ) => RefundRejected(r)
            /\ ( /\ CreateRefundSum(r)
                 /\ \/ r.body.amount <= 0
                    \/ r.body.amount
                         > payments[r.target].amount - RefundedSum(r.target) )
                  => RefundRejected(r)
       /\ lastResp'.op = "createRefund" /\ lastResp'.code # 201
            => lastResp'.row = 0]_vars

C17_Witness ==
    /\ lastResp.op = "createRefund" /\ lastResp.code = 400
    /\ lastResp.body = ErrorBody("BAD_REQUEST_ERROR",
                                 "Refund amount exceeds available amount")
    /\ lastResp.target \in DOMAIN payments
    /\ RefundedSum(lastResp.target) > 0
    /\ \E f \in DOMAIN refunds : refunds[f].status = "pending"


(***************************************************************************)
(* C18.  A payment-creation request that fails validation (its order is   *)
(* not an order of the merchant, its method is neither card nor upi, a    *)
(* card payment lacks card fields, a upi payment lacks the vpa) is         *)
(* answered 404 or 400 by the validating step, which inserts no payment   *)
(* row, adds no job and stores nothing in the idempotency cache; no       *)
(* request answered 404 or 400 has inserted a row.                         *)
(***************************************************************************)
FailsValidation(r) ==
    \/ ~(r.target \in DOMAIN orders /\ orders[r.target].merchant_id = r.merchant)
    \/ r.body.method \notin {"card", "upi"}
    \/ r.body.method = "card" /\ ~r.body.card
    \/ r.body.method = "upi" /\ ~r.body.vpa

C18_InvalidPaymentWritesNothing ==
    [][/\ \A r \in Reqs :
            CreatePaymentValidate(r) /\ FailsValidation(r)
              => /\ lastResp'.op = "createPayment"
                 /\ lastResp'.code \in {400, 404}
                 /\ lastResp'.key = r.key /\ lastResp'.row = 0
                 /\ CopiesIn(r, reqs') = CopiesIn(r, reqs) - 1
                 /\ payments' = payments /\ paymentQueue' = paymentQueue
                 /\ added' = added /\ idempotency_keys' = idempotency_keys
                 /\ returned' = returned
       /\ \A r \in Reqs :
            r.op = "createPayment" /\ r.pc \in {"insert", "enqueue", "store"}
              => ~FailsValidation(r)
       /\ lastResp'.op = "createPayment" /\ lastResp'.code \in {400, 404}
            => lastResp'.row = 0]_vars

C18_Witness ==
    /\ lastResp.op = "createPayment" /\ lastResp.code = 400
    /\ lastResp.key # NULL
    /\ lastResp.body = ErrorBody("BAD_REQUEST_ERROR",
                                 "VPA is required for UPI payments")
    /\ payments # << >> /\ idempotency_keys # {}


(***************************************************************************)
(* C19.  A lookup deletes the record of a key only at a time now >=       *)
(* expires_at: no step removes the record of a key whose expires_at lies  *)
(* in the future.                                                          *)
(***************************************************************************)
C19_LiveRecordIsNeverDeleted ==
    [][\A k \in idempotency_keys :
          now < k.expires_at
            => IdempotencyRows(k.key, k.merchant_id)' # {}]_vars


(***************************************************************************)
(* C20.  A payment-creation request whose idempotency lookup, expiry      *)
(* delete or store raised a storage error is answered as a request        *)
(* without a cached key is: 404 or 400 without a row when it fails        *)
(* validation, otherwise 201 with the payment it inserted itself; it is   *)
(* never rejected for the storage error, and after an error of the lookup *)
(* or the delete it goes on to validation.                                 *)
(***************************************************************************)
IdempotencyFaults == {"check", "expire", "store"}

C20_StorageErrorsAreSwallowed ==
    [][/\ \A r \in Reqs :
            ( /\ r.op = "createPayment"
              /\ BagCardinality(reqs') < BagCardinality(reqs)
              /\ CopiesIn(r, reqs') < CopiesIn(r, reqs)
              /\ lastResp'.faults # {}
              /\ lastResp'.faults \subseteq IdempotencyFaults )
              => /\ lastResp'.op = "createPayment" /\ lastResp'.key = r.key
                 /\ IF FailsValidation(r)
                    THEN lastResp'.code \in {400, 404} /\ lastResp'.row = 0
                    ELSE /\ lastResp'.code = 201
                         /\ r.row # 0 /\ lastResp'.row = r.row
                         /\ lastResp'.body = JSONStringify(PaymentResponse(r.row))
                         /\ payments[r.row].created_at >= r.started
                         /\ AddsOf("process-payment", r.row) = 1
       /\ \A r \in BagToSet(reqs') :
            r.faults \cap {"check", "expire"} # {}
              => r.pc \in {"validate", "insert", "enqueue", "store"}]_vars

C20_Witness ==
    /\ lastResp.op = "createPayment" /\ lastResp.code = 201
    /\ lastResp.faults = {"expire", "store"}
    /\ Len(payments) = 2 /\ lastResp.row = 2
    /\ \E k \in idempotency_keys :
          k.key = lastResp.key /\ k.response.id = 1 /\ now >= k.expires_at


(***************************************************************************)
(* C21.  Idempotency records are scoped per (key, merchant): every 201 a  *)
(* merchant receives, from the cache or not, carries a payment of that    *)
(* merchant, every stored record holds a payment of the merchant it is    *)
(* stored for, and the records of a merchant change only in a step of one *)
(* of that merchant's own requests.                                        *)
(***************************************************************************)
RecordsOf(m) == {k \in idempotency_keys : k.merchant_id = m}

C21_RecordsScopedPerMerchant ==
    [][/\ ( lastResp'.op = "createPayment" /\ lastResp'.code = 201 )
            => /\ lastResp'.body.id \in DOMAIN payments'
               /\ payments'[lastResp'.body.id].merchant_id = lastResp'.merchant
       /\ \A k \in idempotency_keys' :
            /\ k.response.id \in DOMAIN payments'
            /\ payments'[k.response.id].merchant_id = k.merchant_id
       /\ \A m \in Merchants :
            RecordsOf(m)' # RecordsOf(m)
              => \E r \in Reqs : /\ r.merchant = m
                                 /\ CopiesIn(r, reqs') < CopiesIn(r, reqs)]_vars

C21_Witness ==
    /\ lastResp.op = "createPayment" /\ lastResp.code = 201
    /\ lastResp.merchant = "mB" /\ lastResp.row = 0
    /\ \E a \in RecordsOf("mA"), b \in RecordsOf("mB") :
          /\ a.key = lastResp.key /\ b.key = lastResp.key
          /\ a.response.id # b.response.id
          /\ lastResp.body = b.response


(***************************************************************************)
(* C22.  The update that records a delivery attempt sets status success,  *)
(* attempts = previous + 1 and the response code exactly when the         *)
(* endpoint answered with a code in 200..299; for every other answer,     *)
(* no answer (code 0) included, it records a failed attempt: attempts =   *)
(* previous + 1, the code, and status pending or failed.                  *)
(***************************************************************************)
C22_SuccessIffAnswer2xx ==
    [][\A j \in Jobs(webhookQueue) :
          DeliverWebhookUpdate(j)
            => LET id == j.data.webhookLogId
                   answer == j.loc.code
               IN /\ webhook_logs'[id].attempts = webhook_logs[id].attempts + 1
                  /\ webhook_logs'[id].response_code = answer
                  /\ webhook_logs'[id].last_attempt_at = now
                  /\ IF answer \in 200 .. 299
                     THEN webhook_logs'[id].status = "success"
                     ELSE webhook_logs'[id].status \in {"pending", "failed"}]_vars

C22_Witness ==
    \E i \in DOMAIN webhook_logs :
       /\ webhook_logs[i].status = "success"
       /\ webhook_logs[i].response_code = 299
       /\ webhook_logs[i].attempts = 3
       /\ hist[i].posts = 3


(***************************************************************************)
(* C23.  A deliver-webhook job that starts while its merchant's           *)
(* webhook_url is unset goes straight to its return; the execution, from  *)
(* start to completion, sends nothing, leaves the webhook log rows as     *)
(* they are and adds no job, and the job is completed, not retried.       *)
(***************************************************************************)
Skipped(j) == j.state = "active" /\ j.pc = "return" /\ j.loc.attempts = 0

C23_UnsetUrlSkipsDelivery ==
    [][\A j \in Jobs(webhookQueue) :
          /\ ( DeliverWebhookStart(j) /\ ~webhook_url[j.data.merchantId] )
                => /\ \E k \in BagToSet(webhookQueue') :
                        k.data = j.data /\ Skipped(k) /\ k.made = j.made
                   /\ webhook_logs' = webhook_logs /\ hist' = hist
                   /\ added' = added
          /\ ( Skipped(j) /\ CopiesIn(j, webhookQueue') < CopiesIn(j, webhookQueue) )
                => /\ webhookQueue' = BagDel(webhookQueue, j)
                   /\ webhook_logs' = webhook_logs /\ hist' = hist
                   /\ added' = added]_vars

C23_Witness ==
    /\ ~webhook_url["mA"]
    /\ webhookQueue = EmptyBag
    /\ \E i \in DOMAIN webhook_logs :
          /\ webhook_logs[i].status = "pending" /\ webhook_logs[i].attempts = 0
          /\ webhook_logs[i].response_code = NULL
          /\ hist[i].posts = 0
          /\ AddsOf("deliver-webhook", i) = 1


(***************************************************************************)
(* C24.  Every delivery carries as X-Webhook-Signature the HMAC-SHA256,   *)
(* under the webhook secret the execution read from the merchant row, of  *)
(* exactly the text it posts as body: a receiver that recomputes the HMAC *)
(* of the raw body under that secret accepts, and one that uses another   *)
(* secret, or a body other than the one sent (the same payload with its   *)
(* keys in another order included), rejects.                               *)
(***************************************************************************)
OtherBodies(j) ==
    { PayloadString(Jsonb(j.data.payload)),
      PayloadString(webhook_logs[j.data.webhookLogId].payload),
      PayloadString(WebhookPayload(j.data.event, [test |-> FALSE])) }

C24_SignatureCoversSentBytes ==
    [][/\ \A j \in Jobs(webhookQueue) :
            DeliverWebhookStart(j)
              => \E k \in BagToSet(webhookQueue') :
                    /\ k.data = j.data /\ k.state = "active"
                    /\ k.loc.secret = webhook_secret[j.data.merchantId]
       /\ \A k \in BagToSet(webhookQueue') :
            k.loc.body # NoBody
              => /\ k.loc.body = PayloadString(k.data.payload)
                 /\ ReceiverAccepts(k.loc.secret, k.loc.body, k.loc.signature)
                 /\ \A s \in Secrets, b \in OtherBodies(k) \cup {k.loc.body} :
                       ReceiverAccepts(s, b, k.loc.signature)
                         => s = k.loc.secret /\ b = k.loc.body]_vars

C24_Witness ==
    \E j \in Jobs(webhookQueue) :
       /\ j.loc.body # NoBody
       /\ j.loc.body # PayloadString(webhook_logs[j.data.webhookLogId].payload)
       /\ j.loc.body.json[1][1] = "data"
       /\ j.loc.secret # webhook_secret[j.data.merchantId]
       /\ ~ReceiverAccepts(webhook_secret[j.data.merchantId], j.loc.body,
                           j.loc.signature)
       /\ ReceiverAccepts(j.loc.secret, j.loc.body, j.loc.signature)


(***************************************************************************)
(* C25.  On each of the three queues a job whose handler throws is run    *)
(* again by the queue after an exponential backoff (2000 ms after the     *)
(* first failed run, 6000 ms after the second) as long as it has been run *)
(* fewer than 3 times in all; the third failed run fails the job, which   *)
(* leaves the queue and is not run again.  A job is therefore retried at  *)
(* most twice.                                                             *)
(***************************************************************************)
Runs(j) == j.made + 1

BackoffAfter(runs) == QueueBackoffDelay * (Pow2(runs) - 1)

RetryOf(j, k) ==
    /\ k.data = j.data /\ k.state = "delayed" /\ k.pc = "idle"
    /\ k.made = j.made + 1
    /\ k.due = now + BackoffAfter(Runs(j))

ProcessedSum(p) ==
    SumOver([i \in DOMAIN refunds |-> refunds[i].amount],
            {i \in DOMAIN refunds : /\ refunds[i].payment_id = p
                                    /\ refunds[i].status = "processed"})

C26_ProcessedRefundsWithinAmount ==
    \A p \in DOMAIN payments : ProcessedSum(p) <= payments[p].amount

C26_Witness ==
    \E p \in DOMAIN payments :
       /\ RefundedSum(p) > payments[p].amount
       /\ ProcessedSum(p) = payments[p].amount
       /\ refundQueue = EmptyBag /\ reqs = EmptyBag


(***************************************************************************)
(* C27.  A refund becomes processed only in the UPDATE of a refund-worker *)
(* execution, which sets processed_at in the same statement; and an       *)
(* execution gets to that UPDATE only past its checks: when it read the   *)
(* parent payment the status was success, and when it summed the pending  *)
(* and processed refunds of the payment the total was at most the         *)
(* payment's amount.                                                       *)
(***************************************************************************)
ReachesIn(k, pc) ==
    /\ k \in BagToSet(refundQueue') /\ k.state = "active" /\ k.pc = pc
    /\ CopiesIn(k, refundQueue') > CopiesIn(k, refundQueue)

C27_ProcessedOnlyByCheckedExecution ==
    [][/\ \A i \in DOMAIN refunds :
            refunds'[i] # refunds[i]
              => /\ \E j \in Jobs(refundQueue) :
                       /\ j.state = "active" /\ j.pc = "update"
                       /\ j.data.refundId = i
                       /\ ReachesIn([j EXCEPT !.pc = "wh_select"], "wh_select")
                 /\ refunds'[i] = [refunds[i] EXCEPT !.status = "processed",
                                                     !.processed_at = now]
       /\ \A i \in DOMAIN refunds' \ DOMAIN refunds :
            refunds'[i].status = "pending" /\ refunds'[i].processed_at = NULL
       /\ \A k \in BagToSet(refundQueue') :
            LET pid == refunds[k.data.refundId].payment_id
            IN /\ ReachesIn(k, "sum")
                    => /\ [k EXCEPT !.pc = "payment"] \in Jobs(refundQueue)
                       /\ payments[pid].status = "success"
               /\ ReachesIn(k, "update")
                    => /\ [k EXCEPT !.pc = "sum"] \in Jobs(refundQueue)
                       /\ RefundedSum(pid) <= payments[pid].amount]_vars

(* The worker has just processed a refund of a payment that a redelivered *)
(* payment job has meanwhile set to failed.                                *)
C27_Witness ==
    \E j \in Jobs(refundQueue) :
       /\ j.state = "active" /\ j.pc = "wh_select"
       /\ refunds[j.data.refundId].status = "processed"
       /\ refunds[j.data.refundId].processed_at = now
       /\ payments[refunds[j.data.refundId].payment_id].status = "failed"


(***************************************************************************)
(* C28.  When an execution of a refund job fails one of its checks (the   *)
(* payment is not success, or the pending and processed refunds sum to    *)
(* more than the payment's amount), the handler throws: the refund row    *)
(* stays pending with processed_at unset, no webhook log and no delivery  *)
(* job is created.  No refund is ever given another status than pending   *)
(* or processed and no refund row is removed, so the refund goes on       *)
(* counting in the payment's refunded total.                               *)
(***************************************************************************)
FailsCheck(j) ==
    LET pid == refunds[j.data.refundId].payment_id
    IN \/ ProcessRefundPayment(j) /\ payments[pid].status # "success"
       \/ ProcessRefundSum(j) /\ RefundedSum(pid) > payments[pid].amount

QueuedFor(i) ==
    SumOver([j \in Jobs(webhookQueue) |-> CopiesIn(j, webhookQueue)],
            {j \in Jobs(webhookQueue) :
                 j.data.webhookLogId = i /\ j.state \in {"waiting", "delayed"}})

WorkingFor(i) ==
    SumOver([j \in Jobs(webhookQueue) |-> CopiesIn(j, webhookQueue)],
            {j \in Jobs(webhookQueue) :
                 j.data.webhookLogId = i /\ j.state = "active" /\ j.pc # "return"})

C29_RetryFollowsPersistedFailure ==
    /\ [](\A i \in DOMAIN webhook_logs :
             QueuedFor(i) + WorkingFor(i) <= 1)
    /\ [][\A i \in DOMAIN webhook_logs :
             AddsOf("deliver-webhook", i)' > AddsOf("deliver-webhook", i)
               => \/ /\ AddsOf("deliver-webhook", i) = 0
                     /\ webhook_logs[i].attempts = 0 /\ hist[i].recorded = 0
                  \/ \E j \in Jobs(webhookQueue) :
                        /\ j.data.webhookLogId = i
                        /\ j.state = "active" /\ j.pc = "retry"
                        /\ webhook_logs[i].attempts = j.loc.attempts
                        /\ webhook_logs[i].status = "pending"
                        /\ webhook_logs[i].response_code = j.loc.code
                        /\ hist[i].recorded = AddsOf("deliver-webhook", i)]_vars

(* The execution that added the retry has not returned yet: the log has   *)
(* two jobs, one active and one delayed.                                   *)
C29_Witness ==
    \E i \in DOMAIN webhook_logs :
       /\ JobsFor(webhookQueue, i) = 2
       /\ QueuedFor(i) = 1 /\ WorkingFor(i) = 0
       /\ webhook_logs[i].attempts = 4 /\ webhook_logs[i].status = "pending"

(* C29 as stated: at most one job of a log is waiting, delayed or active. *)
C29_AtMostOneJobPerLog ==
    \A i \in DOMAIN webhook_logs : JobsFor(webhookQueue, i) <= 1


(***************************************************************************)
(* C30.  Executing a job again changes nothing: once a payment is success *)
(* or failed its row is not written again and it has at most one webhook  *)
(* log and one delivery job, and once a refund is processed its row is    *)
(* not written again and it has at most one webhook log and one delivery  *)
(* job.                                                                    *)
(***************************************************************************)
DataOf(l) == webhook_logs[l].payload[Field(webhook_logs[l].payload, "data")][2]

LogsOfPayment(p) ==
    {l \in DOMAIN webhook_logs :
        /\ webhook_logs[l].event \in {"payment.success", "payment.failed"}
        /\ DataOf(l).payment = p}

LogsOfRefund(i) ==
    {l \in DOMAIN webhook_logs :
        /\ webhook_logs[l].event = "refund.processed"
        /\ DataOf(l).refund = i}

C30_ReexecutionChangesNothing ==
    [][/\ \A p \in DOMAIN payments :
            payments[p].status \in {"success", "failed"}
              => /\ payments'[p] = payments[p]
                 /\ Cardinality(LogsOfPayment(p)') <= 1
                 /\ \A l \in LogsOfPayment(p)' : AddsOf("deliver-webhook", l)' <= 1
       /\ \A i \in DOMAIN refunds :
            refunds[i].status = "processed"
              => /\ refunds'[i] = refunds[i]
                 /\ Cardinality(LogsOfRefund(i)') <= 1
                 /\ \A l \in LogsOfRefund(i)' : AddsOf("deliver-webhook", l)' <= 1]_vars


(***************************************************************************)
(* C31.  Webhook events agree with the stored state: a payment that has a *)
(* payment.success log is success, a payment that has a payment.failed    *)
(* log is failed, and no payment has logs of both events.                 *)
(***************************************************************************)
C31_EventsAgreeWithStatus ==
    \A l \in DOMAIN webhook_logs :
       /\ webhook_logs[l].event = "payment.success"
            => payments[DataOf(l).payment].status = "success"
       /\ webhook_logs[l].event = "payment.failed"
            => payments[DataOf(l).payment].status = "failed"


(***************************************************************************)
(* C32.  A delivery that fails (an answer outside 2xx, or no answer: code *)
(* 0) does not make the handler throw: the execution goes on to its       *)
(* update and returns, the job is completed in its first run, and no job  *)
(* of the webhook queue is ever retried by the queue.  The only further   *)
(* execution a failed delivery causes is that of the one delayed job the  *)
(* execution adds itself.                                                  *)
(***************************************************************************)
FailedAnswer(c) == ~(c >= 200 /\ c < 300)

C32_DeliveryFailureNeverThrows ==
    /\ [](\A j \in Jobs(webhookQueue) : j.made = 0)
    /\ [](\A i \in DOMAIN webhook_logs :
             AddsOf("deliver-webhook", i) <= 1 + hist[i].recorded)
    /\ [][\A j \in Jobs(webhookQueue) :
             /\ \A c \in EndpointCodes :
                  ( FailedAnswer(c) /\ DeliverWebhookPost(j, c) )
                     => \E k \in BagToSet(webhookQueue') :
                           /\ k.data = j.data /\ k.state = "active"
                           /\ k.pc = "update" /\ k.made = j.made
                           /\ k.loc.code = c /\ ~k.loc.ok
             /\ ( j.state = "active"
                  /\ CopiesIn(j, webhookQueue') < CopiesIn(j, webhookQueue)
                  /\ JobsFor(webhookQueue', j.data.webhookLogId)
                        < JobsFor(webhookQueue, j.data.webhookLogId) )
                  => j.pc = "return"]_vars

(* Five failed deliveries, five jobs, each completed in its first run. *)
C32_Witness ==
    \E i \in DOMAIN webhook_logs :
       /\ webhook_logs[i].status = "failed"
       /\ webhook_logs[i].attempts = MaxWebhookAttempts
       /\ AddsOf("deliver-webhook", i) = MaxWebhookAttempts
       /\ hist[i].posts = MaxWebhookAttempts
       /\ webhookQueue = EmptyBag


(***************************************************************************)
(* C33.  getRetryDelay(n) is the n-th entry (counting from 0) of the      *)
(* table of the mode for n in 0..4 and the table's last entry for n > 4.  *)
(***************************************************************************)
TableEntry(n) ==
    LET table == IF testMode THEN TestIntervals ELSE ProdIntervals
    IN IF n <= 4 THEN table[n + 1] ELSE table[Len(table)]

C34_StatusMatchesAttempts ==
    \A i \in DOMAIN webhook_logs :
       /\ webhook_logs[i].status = "failed"
             => webhook_logs[i].attempts >= MaxWebhookAttempts
       /\ webhook_logs[i].status = "pending"
             => webhook_logs[i].attempts < MaxWebhookAttempts

(* A delivery that had read the log before a manual retry reset it writes *)
(* its fifth failure over the reset: the log is failed with 5 attempts    *)
(* although the retry has restarted the schedule.                          *)
C34_Witness ==
    \E i \in DOMAIN webhook_logs :
       /\ webhook_logs[i].status = "failed"
       /\ webhook_logs[i].attempts >= MaxWebhookAttempts
       /\ hist[i].resets >= 1
       /\ hist[i].fresh = 0


(***************************************************************************)
(* C35.  No webhook log is orphaned: every pending log has a              *)
(* deliver-webhook job that is waiting, delayed or active, or is with the *)
(* execution or request that has just written it and is about to add its  *)
(* job; this also when that add fails.                                     *)
(***************************************************************************)
AboutToEnqueue(i) ==
    \/ \E qn \in {"payment", "refund"} : \E j \in Jobs(QueueOf(qn)) :
          j.state = "active" /\ j.pc = "wh_enqueue" /\ j.loc.log = i
    \/ \E r \in Reqs :
          /\ r.pc = "enqueue"
          /\ \/ r.op = "testWebhook" /\ r.row = i
             \/ r.op = "retryWebhook" /\ r.target = i

C35_NoPendingLogWithoutJob ==
    \A i \in DOMAIN webhook_logs :
       webhook_logs[i].status = "pending"
          => JobsFor(webhookQueue, i) >= 1 \/ AboutToEnqueue(i)


(***************************************************************************)
(* C36.  A job is added only after the row it names has been inserted:    *)
(* every process-payment job names a payment row, every process-refund    *)
(* job a refund row and every deliver-webhook job a webhook log of its    *)
(* merchant; no row is ever removed; so the load step of a job always     *)
(* finds its row and the execution goes on instead of throwing.           *)
(***************************************************************************)
RowOf(qn, j) ==
    CASE qn = "payment" -> j.data.paymentId \in DOMAIN payments
      [] qn = "refund" -> j.data.refundId \in DOMAIN refunds
      [] qn = "webhook" ->
           /\ j.data.webhookLogId \in DOMAIN webhook_logs
           /\ webhook_logs[j.data.webhookLogId].merchant_id = j.data.merchantId

Loaded(qn, j) ==
    \E k \in BagToSet(QueueOf(qn)') :
       k.data = j.data /\ k.state = "active" /\ k.made = j.made /\ k.pc # "idle"

C36_JobNamesInsertedRow ==
    /\ [](\A qn \in QueueNames : \A j \in Jobs(QueueOf(qn)) : RowOf(qn, j))
    /\ [][/\ Len(payments') >= Len(payments)
          /\ Len(refunds') >= Len(refunds)
          /\ Len(webhook_logs') >= Len(webhook_logs)
          /\ \A j \in Jobs(paymentQueue) :
                ProcessPaymentLoad(j) => Loaded("payment", j)
          /\ \A j \in Jobs(refundQueue) :
                ProcessRefundLoad(j) => Loaded("refund", j)]_vars

(* Jobs of all three kinds have been added and the payment and refund     *)
(* workers have loaded their rows.                                         *)
C36_Witness ==
    /\ \E j \in Jobs(webhookQueue) :
          webhook_logs[j.data.webhookLogId].event = "refund.processed"
    /\ \E j \in Jobs(webhookQueue) :
          webhook_logs[j.data.webhookLogId].event = "payment.success"
    /\ \E j \in Jobs(refundQueue) : j.state = "active" /\ j.pc = "payment"


(***************************************************************************)
(* C37.  In every reachable state every refund row refers to a payment    *)
(* whose status is success.                                                *)
(***************************************************************************)
C37_RefundedPaymentIsSuccess ==
    \A i \in DOMAIN refunds :
       /\ refunds[i].payment_id \in DOMAIN payments
       /\ payments[refunds[i].payment_id].status = "success"


(***************************************************************************)
(* C38.  An idempotency record is written only by a creation that has     *)
(* inserted its payment row and added its job, and holds the body of the  *)
(* 201 response of that creation; a creation answered with 400, 404 or    *)
(* 500 writes no record, so that a later request with the same key is     *)
(* executed again.                                                         *)
(***************************************************************************)
Answered(r) ==
    /\ BagCardinality(reqs') < BagCardinality(reqs)
    /\ CopiesIn(r, reqs') < CopiesIn(r, reqs)

C38_OnlyCreatedPaymentsAreCached ==
    [][/\ idempotency_keys' \ idempotency_keys # {}
            => \E r \in Reqs :
                  /\ r.op = "createPayment" /\ r.pc = "store" /\ r.key # NULL
                  /\ Answered(r)
                  /\ r.row \in DOMAIN payments
                  /\ AddsOf("process-payment", r.row) >= 1
                  /\ idempotency_keys' \ idempotency_keys =
                        {[key |-> r.key, merchant_id |-> r.merchant,
                          response |-> JSONStringify(PaymentResponse(r.row)),
                          expires_at |-> now + IdempotencyTtl]}
                  /\ lastResp'.code = 201
                  /\ lastResp'.body = JSONStringify(PaymentResponse(r.row))
       /\ \A r \in Reqs :
            ( r.op = "createPayment" /\ Answered(r)
              /\ lastResp'.code \in {400, 404, 500} )
               => idempotency_keys' = idempotency_keys]_vars

(* A creation under a key failed with 500 after its insert and left no    *)
(* record; the retry under the same key was executed again, created a     *)
(* second payment and was cached.                                          *)
C38_Witness ==
    /\ Len(payments) = 2
    /\ AddsOf("process-payment", 1) = 0 /\ AddsOf("process-payment", 2) = 1
    /\ lastResp.code = 201 /\ lastResp.row = 2 /\ lastResp.key # NULL
    /\ \E k \in IdempotencyRows(lastResp.key, lastResp.merchant) :
          k.response = JSONStringify(PaymentResponse(2))
    /\ reqs = EmptyBag


(***************************************************************************)
(* C39.  Merchant isolation.                                               *)
(***************************************************************************)
(* The request names a row of another merchant: an order for payment       *)
(* creation, a payment for get, capture and refund, a webhook log for the  *)
(* manual retry.                                                           *)
Foreign(r) ==
    CASE r.op = "createPayment" ->
           r.target \in DOMAIN orders
             /\ orders[r.target].merchant_id # r.merchant
      [] r.op \in {"getPayment", "capturePayment", "createRefund"} ->
           r.target \in DOMAIN payments
             /\ payments[r.target].merchant_id # r.merchant
      [] r.op = "retryWebhook" ->
           r.target \in DOMAIN webhook_logs
             /\ webhook_logs[r.target].merchant_id # r.merchant
      [] OTHER -> FALSE

(* The step is a step of request r. *)
Moved(r) == CopiesIn(r, reqs') < CopiesIn(r, reqs)

(* The request carries an idempotency key and is at the look-up of it.     *)
AtKeyCheck(r) == r.op = "createPayment" /\ r.key # NULL /\ r.pc = "check"

(* C39: a request by one merchant that names an order, payment or webhook  *)
(* log of another merchant changes no order, payment, refund or webhook    *)
(* log and no queue, and is answered with 404 by its look-up of the row;   *)
(* the exception is a payment creation sent with an idempotency key under  *)
(* which the requesting merchant has a record: a live record is answered   *)
(* with 201 and the recorded body, an expired one is deleted before the    *)
(* 404, and no other idempotency record changes.                           *)
C39_ForeignRequestReadsOnlyOwnRecord ==
    [][\A r \in Reqs :
         (Foreign(r) /\ Moved(r)) =>
            /\ << orders, payments, refunds, webhook_logs >>' =
                 << orders, payments, refunds, webhook_logs >>
            /\ queueVars' = queueVars
            /\ \/ idempotency_keys' = idempotency_keys
               \/ /\ r.op = "createPayment" /\ r.key # NULL /\ r.pc = "expire"
                  /\ checkIdempotencyKey(r.key, r.merchant) = "expired"
                  /\ idempotency_keys' =
                       idempotency_keys \ IdempotencyRows(r.key, r.merchant)
            /\ IF Answered(r)
               THEN \/ lastResp'.code = 404
                    \/ /\ AtKeyCheck(r)
                       /\ checkIdempotencyKey(r.key, r.merchant) = "hit"
                       /\ lastResp'.code = 201
                       /\ lastResp'.body = CachedResponse(r.key, r.merchant)
               ELSE /\ r.op = "createPayment" /\ r.key # NULL
                    /\ r.pc \in {"check", "expire"}]_vars

(* Merchant mB asked for a refund of mA's successful payment, was answered *)
(* with 404, and there is no refund and no refund job.                     *)
C39_Witness ==
    /\ lastResp.op = "createRefund" /\ lastResp.code = 404
    /\ lastResp.merchant = "mB"
    /\ lastResp.target \in DOMAIN payments
    /\ payments[lastResp.target].merchant_id = "mA"
    /\ payments[lastResp.target].status = "success"
    /\ refunds = << >> /\ refundQueue = EmptyBag
    /\ reqs = EmptyBag

(* C39 as stated: every request that names a row of another merchant is    *)
(* answered with 404 and changes no row and no queue.                      *)
C39_ForeignRequestIsNotFound ==
    [][\A r \in Reqs :
         (Foreign(r) /\ Moved(r)) =>
            /\ storeVars' = storeVars
            /\ queueVars' = queueVars
            /\ Answered(r) => lastResp'.code = 404]_vars

=============================================================================
